---- MODULE Spec2Model ----
(***************************************************************************)
(* Medication tracker: the Cloudflare Worker API (src/worker/worker.js)    *)
(* over its key-value namespace MEDICATION_KV, and the browser client      *)
(* (src/script.js) that calls it.                                          *)
(*                                                                         *)
(* JSON values are modelled structurally: an array is a sequence, an       *)
(* object is a function from its keys, an optional field of a request body *)
(* is <<>> when it is absent and <<v>> when it is present.  A key of the   *)
(* namespace is the tuple of the parts the code joins with ":".            *)
(***************************************************************************)
EXTENDS Integers, Sequences, FiniteSets, TLC

\* ------------------------------------------------------------------ bounds
MaxIdx == 1        \* dose indices sent by the environment are 0..MaxIdx
MaxMeds == 2       \* longest medications array sent to POST /api/medications
MaxReq == 3        \* writing requests served in one behaviour of Spec
MaxConcReq == 3    \* requests started in one behaviour of SpecConc
MaxClientOps == 3  \* client operations started in one behaviour of SpecClient
MaxPairs == 2      \* pairs of requests started in one behaviour of SpecPair

Users == {"peter", "seonho"}
Dates == {"2024-03-01", "2024-03-02"}
MedIds == {"m1", "m2"}
Timestamps == {"t1", "t2"}
Idx == 0..MaxIdx

\* ------------------------------------------------------------ JSON values
None == <<>>
Some(x) == <<x>>

\* JSON null in a doses array, and the hole a sparse JavaScript array has
\* at an index that was never assigned.
Null == [kind |-> "null"]
Hole == [kind |-> "hole"]

Dose(taken, timestamp) == [taken |-> taken, timestamp |-> timestamp]
Doses == [taken : BOOLEAN, timestamp : Timestamps]

Medication(id, name) == [id |-> id, name |-> name]
MedRecords == { Medication("m1", "Aspirin"), Medication("m2", "Zinc") }

RECURSIVE SeqsUpTo(_, _)
SeqsUpTo(S, n) ==
    IF n = 0 THEN {<<>>}
    ELSE LET shorter == SeqsUpTo(S, n - 1)
         IN shorter \cup { Append(q, x) : q \in { r \in shorter : Len(r) = n - 1 }, x \in S }

MedLists == SeqsUpTo(MedRecords, MaxMeds)

\* JavaScript falsiness of an optional string field: undefined or "".
Falsy(f) == f = None \/ f = Some("")

\* Mutant of ToBoolean: every taken value is stored as true.
ToBooleanAlwaysTrue(v) == TRUE

\* Boolean(taken) for a boolean taken.
ToBoolean(v) == v = TRUE

\* doseIndex || 0
OrZero(f) == IF f = None THEN 0 ELSE f[1]

\* JSON.stringify followed by JSON.parse of a doses array: a hole is
\* written as null, every other slot is kept.
StringifyDoses(doses) ==
    [j \in 1..Len(doses) |-> IF doses[j] = Hole THEN Null ELSE doses[j]]

\* JSON.stringify followed by JSON.parse of a day entry.
StringifyEntries(entries) ==
    [m \in DOMAIN entries |-> [doses |-> StringifyDoses(entries[m].doses)]]

\* ------------------------------------------------------------ key-value
\* A key is the string `user:${userId}:...`; it is modelled as the tuple of
\* its parts between the ":".  SplitColon gives the parts of a user id or a
\* date: of the strings used here only one holds ":".  JoinColon puts the
\* parts together again.
SplitColon(string) ==
    IF string = "peter:entries:x" THEN <<"peter", "entries", "x">> ELSE <<string>>

RECURSIVE JoinColon(_)
JoinColon(parts) ==
    IF Len(parts) = 0 THEN ""
    ELSE IF Len(parts) = 1 THEN parts[1]
    ELSE parts[1] \o ":" \o JoinColon(Tail(parts))

medicationsKey(userId) == <<"user">> \o SplitColon(userId) \o <<"medications">>
\* Mutant of entryKey: the date is left out of the key, so that all dates of
\* a user share one key.
entryKeyWithoutDate(userId, date) ==
    <<"user">> \o SplitColon(userId) \o <<"entries", "">>
entryKey(userId, date) ==
    <<"user">> \o SplitColon(userId) \o <<"entries">> \o SplitColon(date)
entriesPrefix(userId) == <<"user">> \o SplitColon(userId) \o <<"entries">>

KvHas(kv, key) == key \in DOMAIN kv
KvPut(kv, key, value) ==
    [k \in DOMAIN kv \cup {key} |-> IF k = key THEN value ELSE kv[k]]
KvDelete(kv, key) == [k \in DOMAIN kv \ {key} |-> kv[k]]
\* list({prefix}): the keys that start with "user:<id>:entries:".
KvList(kv, prefix) ==
    { k \in DOMAIN kv : Len(k) > Len(prefix) /\ SubSeq(k, 1, Len(prefix)) = prefix }

EmptyKv == [k \in {} |-> <<>>]

\* ------------------------------------------------------------ responses
jsonResponse(data, status) == [status |-> status, body |-> data]
errorResponse(message, status) == jsonResponse([error |-> message], status)

\* What a handler does to the namespace after its reads, and its response.
NoWrite == [kind |-> "none"]
Put(key, value) == [kind |-> "put", key |-> key, value |-> value]
Delete(key) == [kind |-> "delete", key |-> key]
Result(write, response) == [write |-> write, response |-> response]

\* Mutant of ApplyWrite: a put of a day entry keeps the medication
\* sub-entries that are stored and that the written value does not name.
ApplyWriteMerges(store, write) ==
    IF write.kind = "put" /\ write.key \in DOMAIN store /\ Len(write.key) = 4
    THEN KvPut(store, write.key,
               [m \in DOMAIN store[write.key] \cup DOMAIN write.value |->
                   IF m \in DOMAIN write.value THEN write.value[m]
                   ELSE store[write.key][m]])
    ELSE IF write.kind = "put" THEN KvPut(store, write.key, write.value)
    ELSE IF write.kind = "delete" THEN KvDelete(store, write.key)
    ELSE store

ApplyWrite(store, write) ==
    IF write.kind = "put" THEN KvPut(store, write.key, write.value)
    ELSE IF write.kind = "delete" THEN KvDelete(store, write.key)
    ELSE store

\* ------------------------------------------------------------- handlers
\* Each handler maps the namespace as it reads it and the request (the
\* X-User-ID header and the parsed body) to the write it ends with and the
\* response.

\* Mutant of GetDataHandler: a missing medications key is created holding
\* [] before the response is returned.
GetDataHandlerCreatesList(kv, userId) ==
    LET medications == IF KvHas(kv, medicationsKey(userId))
                       THEN kv[medicationsKey(userId)] ELSE <<>>
        prefix == entriesPrefix(userId)
        keys == KvList(kv, prefix)
        dateOf(k) == JoinColon(SubSeq(k, Len(prefix) + 1, Len(k)))
        entries == [date \in { dateOf(k) : k \in keys } |->
                        kv[CHOOSE k \in keys : dateOf(k) = date]]
    IN Result(IF KvHas(kv, medicationsKey(userId)) THEN NoWrite
              ELSE Put(medicationsKey(userId), <<>>),
              jsonResponse([entries |-> entries, medications |-> medications], 200))

\* GET /api/data
GetDataHandler(kv, userId) ==
    LET medications == IF KvHas(kv, medicationsKey(userId))
                       THEN kv[medicationsKey(userId)] ELSE <<>>
        prefix == entriesPrefix(userId)
        keys == KvList(kv, prefix)
        dateOf(k) == JoinColon(SubSeq(k, Len(prefix) + 1, Len(k)))
        entries == [date \in { dateOf(k) : k \in keys } |->
                        kv[CHOOSE k \in keys : dateOf(k) = date]]
    IN Result(NoWrite, jsonResponse([entries |-> entries, medications |-> medications], 200))

\* Mutant of ArrayIsArray: the test is typeof medications === 'object', which
\* objects and null pass as well.
ArrayIsArrayTypeofObject(field) == field.type \in {"array", "object", "null"}

\* Array.isArray(medications) of a body field [type, value].
ArrayIsArray(field) == field.type = "array"

\* Mutant of PostMedicationsHandler: the posted array is appended to the
\* stored list instead of replacing it.
PostMedicationsHandlerAppends(kv, userId, body) ==
    IF ~ArrayIsArray(body.medications)
    THEN Result(NoWrite, errorResponse("medications must be an array", 400))
    ELSE LET old == IF KvHas(kv, medicationsKey(userId))
                    THEN kv[medicationsKey(userId)] ELSE <<>>
         IN Result(Put(medicationsKey(userId), old \o body.medications.value),
                   jsonResponse([medications |-> body.medications.value, success |-> TRUE], 200))

\* POST /api/medications
PostMedicationsHandler(kv, userId, body) ==
    IF ~ArrayIsArray(body.medications)
    THEN Result(NoWrite, errorResponse("medications must be an array", 400))
    ELSE Result(Put(medicationsKey(userId), body.medications.value),
                jsonResponse([medications |-> body.medications.value, success |-> TRUE], 200))

\* doses[index] = value on a JavaScript array: an index past the end
\* lengthens the array and leaves holes before it.
AssignAt(doses, index, value) ==
    [j \in 1..(IF index + 1 > Len(doses) THEN index + 1 ELSE Len(doses)) |->
        IF j = index + 1 THEN value
        ELSE IF j <= Len(doses) THEN doses[j] ELSE Hole]

\* Mutant of PadDoses: the loop bound is off by one and pushes one null too
\* many.
PadDosesOneTooMany(doses, doseIdx) ==
    IF Len(doses) <= doseIdx + 1
    THEN doses \o [j \in 1..(doseIdx + 2 - Len(doses)) |-> Null]
    ELSE doses

\* while (doses.length <= doseIdx) doses.push(null)
PadDoses(doses, doseIdx) ==
    IF Len(doses) <= doseIdx
    THEN doses \o [j \in 1..(doseIdx + 1 - Len(doses)) |-> Null]
    ELSE doses

\* The day entry POST /api/entry writes back: entries[medicationId] is
\* created when absent, its doses padded, and the slot doseIdx assigned.
PostEntryUpsert(entries, medicationId, doseIdx, dose) ==
    LET old == IF medicationId \in DOMAIN entries
               THEN entries[medicationId].doses ELSE <<>>
        padded == PadDoses(old, doseIdx)
        doses == AssignAt(padded, doseIdx, dose)
    IN [m \in DOMAIN entries \cup {medicationId} |->
            IF m = medicationId THEN [doses |-> doses] ELSE entries[m]]

\* Mutant of PostEntryHandler: a body without taken is not rejected, the
\* dose is stored with Boolean(undefined), that is false.
PostEntryHandlerTakenOptional(kv, userId, body, now) ==
    IF Falsy(body.date) \/ body.medicationId = None
    THEN Result(NoWrite, errorResponse("date, medicationId, and taken are required", 400))
    ELSE LET key == entryKey(userId, body.date[1])
             entries == IF KvHas(kv, key) THEN kv[key] ELSE <<>>
             doseIdx == OrZero(body.doseIndex)
             dose == Dose(IF body.taken = None THEN FALSE ELSE ToBoolean(body.taken[1]),
                          IF Falsy(body.timestamp) THEN now ELSE body.timestamp[1])
             updated == PostEntryUpsert(entries, body.medicationId[1], doseIdx, dose)
         IN Result(Put(key, StringifyEntries(updated)),
                   jsonResponse([success |-> TRUE, entry |-> updated[body.medicationId[1]]], 200))

\* POST /api/entry; now is the value of new Date().toISOString().
PostEntryHandler(kv, userId, body, now) ==
    IF Falsy(body.date) \/ body.medicationId = None \/ body.taken = None
    THEN Result(NoWrite, errorResponse("date, medicationId, and taken are required", 400))
    ELSE LET key == entryKey(userId, body.date[1])
             entries == IF KvHas(kv, key) THEN kv[key] ELSE <<>>
             doseIdx == OrZero(body.doseIndex)
             dose == Dose(ToBoolean(body.taken[1]),
                          IF Falsy(body.timestamp) THEN now ELSE body.timestamp[1])
             updated == PostEntryUpsert(entries, body.medicationId[1], doseIdx, dose)
         IN Result(Put(key, StringifyEntries(updated)),
                   jsonResponse([success |-> TRUE, entry |-> updated[body.medicationId[1]]], 200))

\* Mutant of NoDoseAt: only the length is tested, a null slot passes.
NoDoseAtPastEndOnly(doses, doseIdx) == doseIdx >= Len(doses)

\* !entries[medicationId].doses[doseIdx]: the slot is past the end or null.
NoDoseAt(doses, doseIdx) == doseIdx >= Len(doses) \/ doses[doseIdx + 1] = Null

\* Mutant of PutEntryUpdate: the slot is overwritten with a fresh dose, as
\* POST does, which marks it taken.
PutEntryUpdateOverwrites(entries, medicationId, doseIdx, timestamp) ==
    [entries EXCEPT ![medicationId].doses[doseIdx + 1] = Dose(TRUE, timestamp)]

\* entries[medicationId].doses[doseIdx].timestamp = timestamp
PutEntryUpdate(entries, medicationId, doseIdx, timestamp) ==
    [entries EXCEPT ![medicationId].doses[doseIdx + 1].timestamp = timestamp]

\* PUT /api/entry
PutEntryHandler(kv, userId, body) ==
    IF Falsy(body.date) \/ Falsy(body.medicationId) \/ Falsy(body.timestamp)
    THEN Result(NoWrite, errorResponse("date, medicationId, and timestamp are required", 400))
    ELSE LET key == entryKey(userId, body.date[1])
             medicationId == body.medicationId[1]
             doseIdx == OrZero(body.doseIndex)
         IN IF ~KvHas(kv, key)
            THEN Result(NoWrite, errorResponse("Entry not found", 404))
            ELSE IF medicationId \notin DOMAIN kv[key]
            THEN Result(NoWrite, errorResponse("Medication entry not found", 404))
            ELSE IF NoDoseAt(kv[key][medicationId].doses, doseIdx)
            THEN Result(NoWrite, errorResponse("Dose entry not found", 404))
            ELSE LET updated == PutEntryUpdate(kv[key], medicationId, doseIdx,
                                               body.timestamp[1])
                 IN Result(Put(key, StringifyEntries(updated)),
                           jsonResponse([success |-> TRUE, entry |-> updated[medicationId]], 200))

\* Mutant of FilterMedications: only the first element with the id is
\* removed (findIndex and splice).
RECURSIVE FilterMedicationsFirstOnly(_, _)
FilterMedicationsFirstOnly(medications, medicationId) ==
    IF medications = <<>> THEN <<>>
    ELSE IF Head(medications).id = medicationId THEN Tail(medications)
    ELSE <<Head(medications)>> \o FilterMedicationsFirstOnly(Tail(medications), medicationId)

\* Mutant of FilterMedications: the test is inverted, the elements with the
\* id are the ones kept.
FilterMedicationsKeepsId(medications, medicationId) ==
    SelectSeq(medications, LAMBDA m : m.id = medicationId)

\* medications.filter(m => m.id !== medicationId)
FilterMedications(medications, medicationId) ==
    SelectSeq(medications, LAMBDA m : m.id # medicationId)

\* DELETE /api/medication/:id
DeleteMedicationHandler(kv, userId, medicationId) ==
    IF medicationId = ""
    THEN Result(NoWrite, errorResponse("medicationId is required", 400))
    ELSE LET key == medicationsKey(userId)
             medications == IF KvHas(kv, key) THEN kv[key] ELSE <<>>
             filtered == FilterMedications(medications, medicationId)
         IN Result(Put(key, filtered), jsonResponse([success |-> TRUE], 200))

\* Mutant of ClearDose: the dose is removed with splice(doseIndex, 1), which
\* shifts the later doses down.
ClearDoseSplice(doses, doseIndex) ==
    [j \in 1..(IF doseIndex < Len(doses) THEN Len(doses) - 1 ELSE Len(doses)) |->
        IF j <= doseIndex THEN doses[j] ELSE doses[j + 1]]

\* entries[medicationId].doses[doseIndex] = null
ClearDose(doses, doseIndex) == AssignAt(doses, doseIndex, Null)

\* Mutant of hasAnyDoses: the test is d !== undefined, so a null counts as
\* a dose.
hasAnyDosesCountsNull(doses) ==
    \E j \in 1..Len(doses) : doses[j] # Hole

\* doses.some(d => d !== null); some() does not visit holes.
hasAnyDoses(doses) ==
    \E j \in 1..Len(doses) : doses[j] # Hole /\ doses[j] # Null

\* Mutant of DeleteEntryClear: the medication sub-entry is kept when its
\* doses are all null.
DeleteEntryClearKeepsEmpty(entries, medicationId, doseIndex) ==
    [entries EXCEPT ![medicationId].doses = ClearDose(entries[medicationId].doses, doseIndex)]

\* The day entry DELETE /api/entry is left with: the slot nulled and the
\* medication sub-entry dropped when no dose remains in it.
DeleteEntryClear(entries, medicationId, doseIndex) ==
    LET doses == ClearDose(entries[medicationId].doses, doseIndex)
    IN IF hasAnyDoses(doses)
       THEN [entries EXCEPT ![medicationId].doses = doses]
       ELSE [m \in DOMAIN entries \ {medicationId} |-> entries[m]]

\* DELETE /api/entry
DeleteEntryHandler(kv, userId, body) ==
    IF Falsy(body.date) \/ Falsy(body.medicationId) \/ body.doseIndex = None
    THEN Result(NoWrite, errorResponse("date, medicationId, and doseIndex are required", 400))
    ELSE LET key == entryKey(userId, body.date[1])
             medicationId == body.medicationId[1]
         IN IF ~KvHas(kv, key)
            THEN Result(NoWrite, jsonResponse([success |-> TRUE], 200))
            ELSE IF medicationId \notin DOMAIN kv[key]
            THEN Result(NoWrite, jsonResponse([success |-> TRUE], 200))
            ELSE LET cleared == DeleteEntryClear(kv[key], medicationId, body.doseIndex[1])
                 IN IF DOMAIN cleared = {}
                    THEN Result(Delete(key), jsonResponse([success |-> TRUE], 200))
                    ELSE Result(Put(key, StringifyEntries(cleared)),
                                jsonResponse([success |-> TRUE], 200))

\* ---------------------------------------------------------- environment
\* The request bodies the environment sends.
EntryBody(date, medicationId, taken, timestamp, doseIndex) ==
    [taken |-> taken, timestamp |-> timestamp, date |-> date,
     medicationId |-> medicationId, doseIndex |-> doseIndex]

\* The client stamps a dose with its own clock (PostTimestamps); the worker's
\* clock (Clock) reads something else.
PostTimestamps == {"t1"}
Clock == {"t2"}

\* Bodies of POST /api/entry that lack date, medicationId, taken, or all
\* three.
IncompleteEntryBodies ==
    { EntryBody(None, Some("m1"), Some(TRUE), Some("t1"), Some(0)),
      EntryBody(Some("2024-03-01"), None, Some(TRUE), Some("t1"), Some(0)),
      EntryBody(Some("2024-03-01"), Some("m1"), None, Some("t1"), Some(0)),
      EntryBody(None, None, None, None, None) }

PostEntryBodies ==
    { EntryBody(Some(d), Some(m), Some(t), Some(ts), Some(i)) :
        d \in Dates, m \in MedIds, t \in BOOLEAN, ts \in PostTimestamps, i \in Idx }
    \cup { EntryBody(Some(d), Some(m), Some(TRUE), Some(ts), None) :
        d \in Dates, m \in MedIds, ts \in PostTimestamps }
    \cup IncompleteEntryBodies

PutEntryBodies ==
    { [timestamp |-> Some(ts), date |-> Some(d), medicationId |-> Some(m),
       doseIndex |-> Some(i)] :
        d \in Dates, m \in MedIds, ts \in Timestamps, i \in Idx }

DeleteEntryBodies ==
    { [date |-> Some(d), medicationId |-> Some(m), doseIndex |-> Some(i)] :
        d \in Dates, m \in MedIds, i \in Idx }

\* The JSON types of a medications field that is not an array; "absent" is
\* a body without the field.
NonArrayTypes == {"absent", "null", "object", "string", "number"}

MedicationsBodies ==
    { [medications |-> [value |-> A, type |-> "array"]] : A \in MedLists }
    \cup { [medications |-> [value |-> <<>>, type |-> t]] : t \in NonArrayTypes }

NoRequest == [userId |-> "", body |-> [none |-> TRUE], op |-> "none"]
NoResponse == [status |-> 0, body |-> [none |-> TRUE]]
NoGet == [userId |-> "", response |-> NoResponse]

\* The worker invocations that can be in flight together in SpecConc, and
\* the bodies sent to them.
Procs == {"w1", "w2"}
Idle == [pc |-> "idle"]

ConcDates == {"2024-03-01"}
ConcPostBodies ==
    { EntryBody(Some(d), Some(m), Some(TRUE), Some("t1"), Some(i)) :
        d \in ConcDates, m \in MedIds, i \in Idx }
ConcPutBodies ==
    { [timestamp |-> Some("t2"), date |-> Some(d), medicationId |-> Some(m),
       doseIndex |-> Some(i)] : d \in ConcDates, m \in MedIds, i \in Idx }
ConcDeleteBodies ==
    { [date |-> Some(d), medicationId |-> Some(m), doseIndex |-> Some(i)] :
        d \in ConcDates, m \in MedIds, i \in Idx }

\* The client: USERS, the user id of each, the id this.api sends (the
\* APIClient constructor takes it from getUserId()), and the slots for the
\* operations that can be pending together.
USERS == <<"Peter", "Seonho", "Angelina">>
getUserIdForUser(userName) ==
    CASE userName = "Peter" -> "peter"
      [] userName = "Seonho" -> "seonho"
      [] userName = "Angelina" -> "angelina"
getUserId == "generated-user"
\* this.currentUser as the constructor sets it.
currentUser == "Peter"
OpSlots == {"o1", "o2"}
MedNames == {"Aspirin"}
\* Date.now().toString() of the n-th operation: the clock has moved on
\* since the operation before it.
DateNowToString(n) == "m" \o ToString(n)

\* The client's view: this.entries[user] before any dose is recorded, and
\* the calls of shouldTrackMedication.  A date is what a Date object gives:
\* year, month (1..12) and day of the month in local time.
NoEntries == [d \in {} |-> <<>>]
NoSchedule == [called |-> FALSE]
\* Neither getMedicationStatus nor renderStats has been called yet.
NoView == [called |-> FALSE]
\* No operation of the tracker has run yet: loadData of init() is pending.
NoOperation == [kind |-> "none"]

ScheduleDates ==
    { [year |-> 2024, month |-> 2, day |-> d] : d \in 1..29 }
    \cup { [year |-> 2024, month |-> 3, day |-> d] : d \in 1..31 }

\* Medications as shouldTrackMedication reads them: frequency and
\* daysOfWeek, each absent or present; daysOfWeek holds the values of the
\* checked weekday boxes, which are strings.
Frequencies == {None, Some("daily"), Some("every-other-day"), Some("weekly")}
DaysOfWeekLists ==
    {None, Some(<<>>), Some(<<"1", "3">>), Some(<<"0", "6">>), Some(<<"5">>),
     Some(<<"4", "2", "1">>)}
ScheduleMeds == [frequency : Frequencies, daysOfWeek : DaysOfWeekLists]

\* The day number of a date, counted from 1970-01-01 (MakeDay of the
\* ECMAScript Date algorithms).
DayNumber(date) ==
    LET y == IF date.month <= 2 THEN date.year - 1 ELSE date.year
        era == y \div 400
        yoe == y - era * 400
        mp == IF date.month > 2 THEN date.month - 3 ELSE date.month + 9
        doy == (153 * mp + 2) \div 5 + date.day - 1
        doe == yoe * 365 + yoe \div 4 - yoe \div 100 + doy
    IN era * 146097 + doe - 719468

\* Mutant of getDay: the week starts on Monday (0 = Monday .. 6 = Sunday).
getDayMondayFirst(date) == (DayNumber(date) + 3) % 7

\* date.getDay(): 0 = Sunday .. 6 = Saturday.
getDay(date) == (DayNumber(date) + 4) % 7

\* date.getDate()
getDate(date) == date.day

\* daysOfWeek.includes(value)
Includes(list, value) == \E j \in 1..Len(list) : list[j] = value

\* shouldTrackMedication(med, date)
shouldTrackMedication(med, date) ==
    IF Falsy(med.frequency) THEN TRUE
    ELSE LET frequency == med.frequency[1]
             dayOfWeek == getDay(date)
         IN CASE frequency = "daily" -> TRUE
              [] frequency = "every-other-day" -> getDate(date) % 2 = 0
              [] frequency = "weekly" ->
                    LET daysOfWeek == IF med.daysOfWeek = None THEN <<>>
                                      ELSE med.daysOfWeek[1]
                    IN Includes(daysOfWeek, ToString(dayOfWeek))
              [] OTHER -> TRUE

\* ---------------------------------------------------------------- state
VARIABLES
    kv,      \* MEDICATION_KV: key |-> stored JSON value
    req,     \* the writing request (any but GET /api/data) served last
    resp,    \* its response: status and JSON body
    prev,    \* the namespace as it was when that request arrived
    again,   \* TRUE iff that request repeated the request served just before it
    got,     \* the GET /api/data served since, if any: its user and response
    nreq,    \* writing requests served so far
    inflight, \* SpecConc: per worker invocation, the request it is serving
    nconc,   \* SpecConc: requests started so far
    medications, \* SpecClient: this.medications of the MedicationTracker
    ops,     \* SpecClient: the add / delete operations and where each stands
    nops,    \* SpecClient: operations started so far
    base,    \* SpecPair: the namespace as it was when the pair in flight started
    npair,   \* SpecPair: pairs started so far
    thisEntries, \* SpecDose: this.entries[this.currentUser] of the MedicationTracker
    schedule, \* SpecSchedule: the last call of shouldTrackMedication and its result
    trackerEntries, \* SpecSession: this.entries of the MedicationTracker, user |-> date |-> ...
    trackerUser, \* SpecSession: this.currentUser
    last,    \* SpecSession: the operation of the tracker that ran last, and what it found
    view     \* SpecView: the last call of getMedicationStatus or renderStats and its result

seqVars == <<req, resp, prev, again, got, nreq>>
concVars == <<inflight, nconc>>
clientVars == <<medications, ops, nops>>
pairVars == <<base, npair>>
viewVars == <<thisEntries, schedule>>
sessionVars == <<trackerEntries, trackerUser, last, view>>
vars == <<kv, req, resp, prev, again, got, nreq, inflight, nconc, medications, ops, nops,
          base, npair, thisEntries, schedule, trackerEntries, trackerUser, last, view>>

Init ==
    /\ kv = EmptyKv
    /\ req = NoRequest
    /\ resp = NoResponse
    /\ prev = EmptyKv
    /\ again = FALSE
    /\ got = NoGet
    /\ nreq = 0
    /\ inflight = [p \in Procs |-> Idle]
    /\ nconc = 0
    /\ medications = <<>>
    /\ ops = [o \in OpSlots |-> Idle]
    /\ nops = 0
    /\ base = EmptyKv
    /\ npair = 0
    /\ thisEntries = NoEntries
    /\ schedule = NoSchedule
    /\ trackerEntries = NoEntries
    /\ trackerUser = currentUser
    /\ last = NoOperation
    /\ view = NoView

\* One writing request served from arrival to response.
Serve(request, result) ==
    /\ nreq < MaxReq
    /\ nreq' = nreq + 1
    /\ prev' = kv
    /\ kv' = ApplyWrite(kv, result.write)
    /\ req' = request
    /\ again' = (request = req /\ got = NoGet)
    /\ resp' = result.response
    /\ got' = NoGet
    /\ UNCHANGED <<concVars, clientVars, pairVars, viewVars, sessionVars>>

\* GET /api/data served from arrival to response; before records the
\* namespace as the request found it.
GetData ==
    \E u \in Users :
        LET result == GetDataHandler(kv, u)
        IN /\ got' = [userId |-> u, response |-> result.response, before |-> kv]
           /\ kv' = ApplyWrite(kv, result.write)
           /\ UNCHANGED <<req, resp, prev, again, nreq, concVars, clientVars, pairVars, viewVars, sessionVars>>

PostMedications ==
    \E u \in Users, b \in MedicationsBodies :
        Serve([userId |-> u, body |-> b, op |-> "POST /api/medications"],
              PostMedicationsHandler(kv, u, b))

PostEntry ==
    \E u \in Users, b \in PostEntryBodies, now \in Clock :
        Serve([userId |-> u, body |-> b, op |-> "POST /api/entry"],
              PostEntryHandler(kv, u, b, now))

PutEntry ==
    \E u \in Users, b \in PutEntryBodies :
        Serve([userId |-> u, body |-> b, op |-> "PUT /api/entry"],
              PutEntryHandler(kv, u, b))

DeleteMedication ==
    \E u \in Users, id \in MedIds :
        Serve([userId |-> u, body |-> [medicationId |-> id],
               op |-> "DELETE /api/medication"],
              DeleteMedicationHandler(kv, u, id))

DeleteEntry ==
    \E u \in Users, b \in DeleteEntryBodies :
        Serve([userId |-> u, body |-> b, op |-> "DELETE /api/entry"],
              DeleteEntryHandler(kv, u, b))

Next ==
    \/ GetData
    \/ PostMedications
    \/ PostEntry
    \/ PutEntry
    \/ DeleteMedication
    \/ DeleteEntry

Spec == Init /\ [][Next]_vars

\* ------------------------------------------------- interleaved requests
\* The entry handlers suspend at their two namespace calls: await get(key)
\* and await put(key) / delete(key).  Between the two, other invocations
\* run.  An invocation is idle, or has a request and waits for its get
\* (pc = "get"), or has read and waits for its write (pc = "write"), or has
\* responded (pc = "done").
ConcStart(p, op, userId, body) ==
    /\ inflight[p].pc \in {"idle", "done"}
    /\ nconc < MaxConcReq
    /\ nconc' = nconc + 1
    /\ inflight' = [inflight EXCEPT ![p] =
                      [userId |-> userId, body |-> body, op |-> op, pc |-> "get"]]
    /\ UNCHANGED <<kv, seqVars, clientVars, pairVars, viewVars, sessionVars>>

ConcStartPost ==
    \E p \in Procs, b \in ConcPostBodies : ConcStart(p, "POST /api/entry", "peter", b)

ConcStartPut ==
    \E p \in Procs, b \in ConcPutBodies : ConcStart(p, "PUT /api/entry", "peter", b)

ConcStartDelete ==
    \E p \in Procs, b \in ConcDeleteBodies : ConcStart(p, "DELETE /api/entry", "peter", b)

\* The handler of an entry request, applied to the namespace as read.
EntryHandler(store, r) ==
    IF r.op = "POST /api/entry" THEN PostEntryHandler(store, r.userId, r.body, "t1")
    ELSE IF r.op = "PUT /api/entry" THEN PutEntryHandler(store, r.userId, r.body)
    ELSE DeleteEntryHandler(store, r.userId, r.body)

\* What await env.MEDICATION_KV.get(entryKey) of request r returns: the
\* stored day entry, <<>> when the key is absent.
SeenBy(store, r) ==
    LET key == entryKey(r.userId, r.body.date[1])
    IN IF KvHas(store, key) THEN store[key] ELSE <<>>

\* await env.MEDICATION_KV.get(entryKey) returns; the handler runs up to
\* its write, or to its response when it writes nothing.  seen records what
\* the get returned.
ConcGet(p) ==
    /\ inflight[p].pc = "get"
    /\ LET result == EntryHandler(kv, inflight[p])
       IN inflight' = [inflight EXCEPT ![p] =
              [userId |-> inflight[p].userId,
               body |-> inflight[p].body, write |-> result.write,
               response |-> result.response, op |-> inflight[p].op,
               pc |-> IF result.write.kind = "none" THEN "done" ELSE "write", seen |-> SeenBy(kv, inflight[p])]]
    /\ UNCHANGED <<kv, nconc, seqVars, clientVars, pairVars, viewVars, sessionVars>>

\* await env.MEDICATION_KV.put(entryKey, ...) or delete(entryKey) takes
\* effect, and the response is returned.
ConcWrite(p) ==
    /\ inflight[p].pc = "write"
    /\ kv' = ApplyWrite(kv, inflight[p].write)
    /\ inflight' = [inflight EXCEPT ![p].pc = "done"]
    /\ UNCHANGED <<nconc, seqVars, clientVars, pairVars, viewVars, sessionVars>>

ConcRead == \E p \in Procs : ConcGet(p)
ConcCommit == \E p \in Procs : ConcWrite(p)

NextConc ==
    \/ ConcStartPost
    \/ ConcStartPut
    \/ ConcStartDelete
    \/ ConcRead
    \/ ConcCommit

SpecConc == Init /\ [][NextConc]_vars

\* ------------------------------------------------------ pairs of requests
\* Two entry requests arrive together, on any two day keys, and their
\* invocations interleave at the awaits as above; the next pair arrives when
\* both have responded.
PairMedIds == {"m1"}
PairKeys == { <<"peter", "2024-03-01">>, <<"peter", "2024-03-02">>,
              <<"seonho", "2024-03-01">> }
PairRequests ==
    { [userId |-> k[1], body |-> EntryBody(Some(k[2]), Some(m), Some(TRUE), Some("t1"), Some(i)),
       op |-> "POST /api/entry"] :
        k \in PairKeys, m \in PairMedIds, i \in Idx }
    \cup { [userId |-> k[1], body |-> [timestamp |-> Some("t2"), date |-> Some(k[2]),
                      medicationId |-> Some(m), doseIndex |-> Some(i)],
            op |-> "PUT /api/entry"] :
        k \in PairKeys, m \in PairMedIds, i \in Idx }
    \cup { [userId |-> k[1], body |-> [date |-> Some(k[2]), medicationId |-> Some(m),
                      doseIndex |-> Some(i)],
            op |-> "DELETE /api/entry"] :
        k \in PairKeys, m \in PairMedIds, i \in Idx }

StartPair ==
    \E r \in [Procs -> PairRequests] :
        /\ \A p \in Procs : inflight[p].pc \in {"idle", "done"}
        /\ npair < MaxPairs
        /\ npair' = npair + 1
        /\ base' = kv
        /\ inflight' = [p \in Procs |->
                          [userId |-> r[p].userId, body |-> r[p].body, op |-> r[p].op,
                           pc |-> "get"]]
        /\ UNCHANGED <<kv, nconc, seqVars, clientVars, viewVars, sessionVars>>

NextPair ==
    \/ StartPair
    \/ ConcRead
    \/ ConcCommit

SpecPair == Init /\ [][NextPair]_vars

\* ------------------------------------------------------------ partitions
\* Requests with two X-User-ID values, one of which holds ":"; the worker
\* takes any string as the user id.
PartitionUsers == {"peter", "peter:entries:x"}
PartitionDates == {"2024-03-01"}

PartitionGetData ==
    \E u \in PartitionUsers :
        LET result == GetDataHandler(kv, u)
        IN /\ got' = [userId |-> u, response |-> result.response]
           /\ kv' = ApplyWrite(kv, result.write)
           /\ UNCHANGED <<req, resp, prev, again, nreq, concVars, clientVars, pairVars, viewVars, sessionVars>>

PartitionPostMedications ==
    \E u \in PartitionUsers, b \in MedicationsBodies :
        Serve([userId |-> u, body |-> b, op |-> "POST /api/medications"],
              PostMedicationsHandler(kv, u, b))

PartitionPostEntry ==
    \E u \in PartitionUsers, d \in PartitionDates, m \in MedIds, i \in Idx, now \in Clock :
        LET b == EntryBody(Some(d), Some(m), Some(TRUE), Some("t1"), Some(i))
        IN Serve([userId |-> u, body |-> b, op |-> "POST /api/entry"],
                 PostEntryHandler(kv, u, b, now))

PartitionDeleteEntry ==
    \E u \in PartitionUsers, d \in PartitionDates, m \in MedIds, i \in Idx :
        LET b == [date |-> Some(d), medicationId |-> Some(m), doseIndex |-> Some(i)]
        IN Serve([userId |-> u, body |-> b, op |-> "DELETE /api/entry"],
                 DeleteEntryHandler(kv, u, b))

NextPartition ==
    \/ PartitionGetData
    \/ PartitionPostMedications
    \/ PartitionPostEntry
    \/ PartitionDeleteEntry

SpecPartition == Init /\ [][NextPartition]_vars

\* ----------------------------------------------------- edit password
\* Requests that carry no password, a wrong one, or the one the README
\* configures as EDIT_PASSWORD.  The worker reads X-User-ID, the path, the
\* method and the body, and nothing else of a request, so the handlers get
\* no password.
EDIT_PASSWORD == "SRC_Goat"
Passwords == {None, Some("guess"), Some(EDIT_PASSWORD)}
EditDates == {"2024-03-01"}

EditGetData ==
    \E pw \in Passwords :
        LET result == GetDataHandler(kv, "peter")
        IN /\ got' = [userId |-> "peter", response |-> result.response, password |-> pw]
           /\ kv' = ApplyWrite(kv, result.write)
           /\ UNCHANGED <<req, resp, prev, again, nreq, concVars, clientVars, pairVars, viewVars, sessionVars>>

EditPostMedications ==
    \E pw \in Passwords, b \in MedicationsBodies :
        Serve([userId |-> "peter", body |-> b, op |-> "POST /api/medications",
               password |-> pw],
              PostMedicationsHandler(kv, "peter", b))

EditPostEntry ==
    \E pw \in Passwords, d \in EditDates, m \in MedIds, i \in Idx, now \in Clock :
        LET b == EntryBody(Some(d), Some(m), Some(TRUE), Some("t1"), Some(i))
        IN Serve([userId |-> "peter", body |-> b, op |-> "POST /api/entry",
                  password |-> pw],
                 PostEntryHandler(kv, "peter", b, now))

EditPutEntry ==
    \E pw \in Passwords, d \in EditDates, m \in MedIds, i \in Idx :
        LET b == [timestamp |-> Some("t2"), date |-> Some(d), medicationId |-> Some(m),
                  doseIndex |-> Some(i)]
        IN Serve([userId |-> "peter", body |-> b, op |-> "PUT /api/entry",
                  password |-> pw],
                 PutEntryHandler(kv, "peter", b))

EditDeleteEntry ==
    \E pw \in Passwords, d \in EditDates, m \in MedIds, i \in Idx :
        LET b == [date |-> Some(d), medicationId |-> Some(m), doseIndex |-> Some(i)]
        IN Serve([userId |-> "peter", body |-> b, op |-> "DELETE /api/entry",
                  password |-> pw],
                 DeleteEntryHandler(kv, "peter", b))

EditDeleteMedication ==
    \E pw \in Passwords, id \in MedIds :
        Serve([userId |-> "peter", body |-> [medicationId |-> id], op |-> "DELETE /api/medication",
               password |-> pw],
              DeleteMedicationHandler(kv, "peter", id))

NextEdit ==
    \/ EditGetData
    \/ EditPostMedications
    \/ EditPostEntry
    \/ EditPutEntry
    \/ EditDeleteEntry
    \/ EditDeleteMedication

SpecEdit == Init /\ [][NextEdit]_vars

\* ---------------------------------------------------------- client doses
\* trackMedicationDose and clearMedicationStatus of MedicationTracker, for
\* this.currentUser.  Each changes this.entries and runs to its await in one
\* step, and resumes when its request has its response or fails.
DoseDates == {"2024-03-01"}
\* new Date().toISOString() of the n-th tap: the clock has moved on since
\* the tap before it.
toISOString(n) == IF n % 2 = 1 THEN "t1" ELSE "t2"

\* Mutant of TrackDoseLocally: the loop that pushes nulls is left out, so a
\* slot past the end is assigned over holes.
TrackDoseLocallyUnpadded(localEntries, dateKey, medicationId, doseIndex, dose) ==
    LET day == IF dateKey \in DOMAIN localEntries THEN localEntries[dateKey] ELSE <<>>
        old == IF medicationId \in DOMAIN day THEN day[medicationId].doses ELSE <<>>
        doses == AssignAt(old, doseIndex, dose)
        newDay == [m \in DOMAIN day \cup {medicationId} |->
                     IF m = medicationId THEN [doses |-> doses] ELSE day[m]]
    IN [d \in DOMAIN localEntries \cup {dateKey} |->
            IF d = dateKey THEN newDay ELSE localEntries[d]]

\* this.entries[user] after the lines of trackMedicationDose before its
\* try: the day entry and the medication sub-entry are created when
\* missing, nulls are pushed up to doseIndex, and the slot is assigned.
TrackDoseLocally(localEntries, dateKey, medicationId, doseIndex, dose) ==
    LET day == IF dateKey \in DOMAIN localEntries THEN localEntries[dateKey] ELSE <<>>
        old == IF medicationId \in DOMAIN day THEN day[medicationId].doses ELSE <<>>
        doses == AssignAt(PadDoses(old, doseIndex), doseIndex, dose)
        newDay == [m \in DOMAIN day \cup {medicationId} |->
                     IF m = medicationId THEN [doses |-> doses] ELSE day[m]]
    IN [d \in DOMAIN localEntries \cup {dateKey} |->
            IF d = dateKey THEN newDay ELSE localEntries[d]]

\* The catch block of trackMedicationDose:
\* this.entries[user][dateKey][medicationId].doses[doseIndex] = null.  When
\* the day entry or the sub-entry is gone the assignment throws and nothing
\* changes.
RevertTrackedDose(localEntries, dateKey, medicationId, doseIndex) ==
    IF dateKey \in DOMAIN localEntries /\ medicationId \in DOMAIN localEntries[dateKey]
    THEN [localEntries EXCEPT ![dateKey][medicationId].doses =
              AssignAt(@, doseIndex, Null)]
    ELSE localEntries

\* The guard of clearMedicationStatus and updateTimestamp: the slot exists
\* and holds a dose.
HasLocalDose(localEntries, dateKey, medicationId, doseIndex) ==
    /\ dateKey \in DOMAIN localEntries
    /\ medicationId \in DOMAIN localEntries[dateKey]
    /\ ~NoDoseAt(localEntries[dateKey][medicationId].doses, doseIndex)

\* this.entries[user] after the lines of clearMedicationStatus before its
\* try: the slot is nulled, the sub-entry deleted when no dose is left in
\* it, and the day entry deleted when it has no sub-entry left.
ClearDoseLocally(localEntries, dateKey, medicationId, doseIndex) ==
    LET doses == ClearDose(localEntries[dateKey][medicationId].doses, doseIndex)
        day == IF hasAnyDoses(doses)
               THEN [localEntries[dateKey] EXCEPT ![medicationId].doses = doses]
               ELSE [m \in DOMAIN localEntries[dateKey] \ {medicationId} |->
                        localEntries[dateKey][m]]
    IN IF DOMAIN day = {}
       THEN [d \in DOMAIN localEntries \ {dateKey} |-> localEntries[d]]
       ELSE [localEntries EXCEPT ![dateKey] = day]

\* The operation record of a tap: what it changes, this.entries[user] as it
\* found it (before) and as its catch block left it (after).
DoseOp(kind, dateKey, medicationId, doseIndex, taken, timestamp) ==
    [kind |-> kind, taken |-> taken, timestamp |-> timestamp,
     date |-> dateKey, medicationId |-> medicationId, doseIndex |-> doseIndex,
     pc |-> "await", before |-> thisEntries,
     phase |-> "sent", after |-> NoEntries]

TrackMedicationDose ==
    \E o \in OpSlots, d \in DoseDates, m \in MedIds, i \in Idx, taken \in BOOLEAN :
      LET timestamp == toISOString(nops + 1) IN
        /\ ops[o].pc \in {"idle", "done", "failed"}
        /\ nops < MaxClientOps
        /\ nops' = nops + 1
        /\ thisEntries' = TrackDoseLocally(thisEntries, d, m, i, Dose(taken, timestamp))
        /\ ops' = [ops EXCEPT ![o] = DoseOp("track", d, m, i, taken, timestamp)]
        /\ UNCHANGED <<kv, medications, seqVars, concVars, pairVars, schedule, sessionVars>>

ClearMedicationStatus ==
    \E o \in OpSlots, d \in DoseDates, m \in MedIds, i \in Idx :
        /\ ops[o].pc \in {"idle", "done", "failed"}
        /\ nops < MaxClientOps
        /\ HasLocalDose(thisEntries, d, m, i)
        /\ nops' = nops + 1
        /\ thisEntries' = ClearDoseLocally(thisEntries, d, m, i)
        /\ ops' = [ops EXCEPT ![o] = DoseOp("clear", d, m, i, FALSE, "")]
        /\ UNCHANGED <<kv, medications, seqVars, concVars, pairVars, schedule, sessionVars>>

\* The worker serves the pending request of operation o: saveEntry is POST
\* /api/entry, deleteEntry is DELETE /api/entry, both with the user id of
\* the current user.
DoseWorkerServes ==
    \E o \in OpSlots, now \in Clock :
        /\ ops[o].pc = "await" /\ ops[o].phase = "sent"
        /\ LET userId == getUserIdForUser(currentUser)
               result ==
                   IF ops[o].kind = "track"
                   THEN PostEntryHandler(kv, userId,
                            EntryBody(Some(ops[o].date), Some(ops[o].medicationId),
                                      Some(ops[o].taken), Some(ops[o].timestamp),
                                      Some(ops[o].doseIndex)), now)
                   ELSE DeleteEntryHandler(kv, userId,
                            [date |-> Some(ops[o].date),
                             medicationId |-> Some(ops[o].medicationId),
                             doseIndex |-> Some(ops[o].doseIndex)])
           IN kv' = ApplyWrite(kv, result.write)
        /\ ops' = [ops EXCEPT ![o].phase = "handled"]
        /\ UNCHANGED <<thisEntries, medications, nops, seqVars, concVars, pairVars, schedule, sessionVars>>

\* The response arrives: the views are rendered again and the operation
\* ends.
DoseRequestSucceeds ==
    \E o \in OpSlots :
        /\ ops[o].pc = "await" /\ ops[o].phase = "handled"
        /\ ops' = [ops EXCEPT ![o].pc = "done"]
        /\ UNCHANGED <<kv, thisEntries, medications, nops, seqVars, concVars, pairVars,
                       schedule, sessionVars>>

\* The request fails and the catch block runs: trackMedicationDose nulls the
\* slot, clearMedicationStatus only alerts.
DoseRequestFails ==
    \E o \in OpSlots :
        /\ ops[o].pc = "await"
        /\ thisEntries' =
              IF ops[o].kind = "track"
              THEN RevertTrackedDose(thisEntries, ops[o].date, ops[o].medicationId,
                                     ops[o].doseIndex)
              ELSE thisEntries
        /\ ops' = [ops EXCEPT ![o].pc = "failed", ![o].after = thisEntries']
        /\ UNCHANGED <<kv, medications, nops, seqVars, concVars, pairVars, schedule, sessionVars>>

NextDose ==
    \/ TrackMedicationDose
    \/ ClearMedicationStatus
    \/ DoseWorkerServes
    \/ DoseRequestSucceeds
    \/ DoseRequestFails

SpecDose == Init /\ [][NextDose]_vars

\* ------------------------------------------------------------- schedule
\* getMedicationStatus asks shouldTrackMedication for a medication and a
\* date.
ShouldTrack ==
    \E med \in ScheduleMeds, date \in ScheduleDates :
        /\ schedule' = [date |-> date, called |-> TRUE, med |-> med,
                        result |-> shouldTrackMedication(med, date)]
        /\ UNCHANGED <<kv, seqVars, concVars, clientVars, pairVars, thisEntries, sessionVars>>

NextSchedule == ShouldTrack

SpecSchedule == Init /\ [][NextSchedule]_vars

\* ---------------------------------------------------------------- client
\* addMedication and deleteMedication of MedicationTracker.  Each runs to
\* its first await in one step, and resumes when the awaited request has
\* its response or fails.  A request is "sent", then "handled" once the
\* worker has served it; it can fail before or after the worker serves it
\* (the fetch rejects, or the response is not ok).

\* The user ids addMedication saves for, in order: this.api, then USERS.
SaveTargets == <<getUserId>> \o [j \in 1..Len(USERS) |-> getUserIdForUser(USERS[j])]
\* The user ids deleteMedication deletes for, in order.
DeleteTargets == [j \in 1..Len(USERS) |-> getUserIdForUser(USERS[j])]

OpTargets(op) == IF op.kind = "add" THEN SaveTargets ELSE DeleteTargets

\* this.medications.pop()
Pop(list) == IF list = <<>> THEN <<>> ELSE SubSeq(list, 1, Len(list) - 1)

\* addMedication up to its first await: this.medications.push(newMed) and
\* the request saveMedications(this.medications) of this.api.
AddMedication ==
    \E o \in OpSlots, name \in MedNames :
      LET newMed == Medication(DateNowToString(nops + 1), name) IN
        /\ ops[o].pc \in {"idle", "done", "failed"}
        /\ nops < MaxClientOps
        /\ nops' = nops + 1
        /\ medications' = Append(medications, newMed)
        /\ ops' = [ops EXCEPT ![o] =
                     [kind |-> "add", id |-> newMed.id, pc |-> "await",
                      before |-> medications, phase |-> "sent", after |-> <<>>,
                      step |-> 1, payload |-> Append(medications, newMed)]]
        /\ UNCHANGED <<kv, seqVars, concVars, pairVars, viewVars, sessionVars>>

\* deleteMedication up to its first await: the list is filtered and the
\* DELETE request for the first user is sent.  The id is that of a
\* medication the settings list has shown.
DeleteMedicationOp ==
    \E o \in OpSlots, id \in { DateNowToString(n) : n \in 1..nops } :
        /\ ops[o].pc \in {"idle", "done", "failed"}
        /\ nops < MaxClientOps
        /\ nops' = nops + 1
        /\ medications' = FilterMedications(medications, id)
        /\ ops' = [ops EXCEPT ![o] =
                     [kind |-> "delete", id |-> id, pc |-> "await",
                      before |-> medications, phase |-> "sent", after |-> <<>>,
                      step |-> 1, payload |-> <<>>]]
        /\ UNCHANGED <<kv, seqVars, concVars, pairVars, viewVars, sessionVars>>

\* The worker serves the pending request of operation o.
WorkerServes ==
    \E o \in OpSlots :
        /\ ops[o].pc = "await" /\ ops[o].phase = "sent"
        /\ LET userId == OpTargets(ops[o])[ops[o].step]
               result == IF ops[o].kind = "add"
                         THEN PostMedicationsHandler(kv, userId,
                                [medications |-> [value |-> ops[o].payload, type |-> "array"]])
                         ELSE DeleteMedicationHandler(kv, userId, ops[o].id)
           IN kv' = ApplyWrite(kv, result.write)
        /\ ops' = [ops EXCEPT ![o].phase = "handled"]
        /\ UNCHANGED <<medications, nops, seqVars, concVars, pairVars, viewVars, sessionVars>>

\* The response of the pending request arrives: the loop sends the next
\* request, with this.medications as it is now, or the operation ends.
RequestSucceeds ==
    \E o \in OpSlots :
        /\ ops[o].pc = "await" /\ ops[o].phase = "handled"
        /\ IF ops[o].step < Len(OpTargets(ops[o]))
           THEN ops' = [ops EXCEPT ![o].step = @ + 1, ![o].phase = "sent",
                                   ![o].payload = IF ops[o].kind = "add"
                                                  THEN medications ELSE <<>>]
           ELSE ops' = [ops EXCEPT ![o].pc = "done"]
        /\ UNCHANGED <<kv, medications, nops, seqVars, concVars, pairVars, viewVars, sessionVars>>

\* The pending request fails and the catch block runs: addMedication pops
\* this.medications, deleteMedication only alerts.  before and after record
\* this.medications as the operation found it and as its catch block left it.
RequestFails ==
    \E o \in OpSlots :
        /\ ops[o].pc = "await"
        /\ medications' = IF ops[o].kind = "add" THEN Pop(medications) ELSE medications
        /\ ops' = [ops EXCEPT ![o].pc = "failed", ![o].after = medications']
        /\ UNCHANGED <<kv, nops, seqVars, concVars, pairVars, viewVars, sessionVars>>

NextClient ==
    \/ AddMedication
    \/ DeleteMedicationOp
    \/ WorkerServes
    \/ RequestSucceeds
    \/ RequestFails

SpecClient == Init /\ [][NextClient]_vars

\* --------------------------------------------------------------- session
\* One MedicationTracker from its page load on, its operations one after the
\* other: each action is an operation from its first line to the end of its
\* try or of its catch block, with the worker serving each request it
\* awaits.  The medications carry id and name; timesPerDay, frequency and
\* daysOfWeek are not read by any of these operations or by the worker.
MaxSessionOps == 4  \* operations after the first loadData in one behaviour of SpecSession
SessionDates == {"2024-03-01"}
SessionUsers == { USERS[j] : j \in 1..Len(USERS) }

\* What becomes of an awaited request: the worker serves it and the
\* response arrives ("served"), the fetch rejects before the worker sees it
\* ("lost"), or the worker serves it and the response never arrives
\* ("dropped").
Fates == {"served", "lost", "dropped"}

\* APIClient.request: the namespace afterwards, and whether the call
\* returned (the response arrived and was ok) rather than threw.
Fetch(store, result, fate) ==
    [store |-> IF fate = "lost" THEN store ELSE ApplyWrite(store, result.write),
     ok |-> fate = "served" /\ result.response.status \in 200..299]

\* The namespace after saveMedications(list) has been served for the first
\* n of targets, one after the other.
RECURSIVE SaveEach(_, _, _, _)
SaveEach(store, targets, n, list) ==
    IF n = 0 THEN store
    ELSE LET served == SaveEach(store, targets, n - 1, list)
             body == [medications |-> [value |-> list, type |-> "array"]]
         IN ApplyWrite(served, PostMedicationsHandler(served, targets[n], body).write)

\* The namespace after deleteMedication(medicationId) has been served for
\* the first n of targets, one after the other.
RECURSIVE DeleteEach(_, _, _, _)
DeleteEach(store, targets, n, medicationId) ==
    IF n = 0 THEN store
    ELSE LET served == DeleteEach(store, targets, n - 1, medicationId)
         IN ApplyWrite(served, DeleteMedicationHandler(served, targets[n], medicationId).write)

\* The requests of a loop that were served: all of them when none failed
\* (failAt = 0), else those before the failing one, and the failing one
\* when only its response was lost.
ServedCount(targets, failAt, fate) ==
    IF failAt = 0 THEN Len(targets)
    ELSE IF fate = "dropped" THEN failAt ELSE failAt - 1

\* this.entries[user] || {}
EntriesOf(localEntries, user) ==
    IF user \in DOMAIN localEntries THEN localEntries[user] ELSE NoEntries

\* this.entries with this.entries[user] replaced.
WithEntriesOf(localEntries, user, mine) ==
    [u \in DOMAIN localEntries \cup {user} |-> IF u = user THEN mine ELSE localEntries[u]]

\* The ids of the medications the settings list and the tracking modal
\* show.
ListedIds == { medications[j].id : j \in 1..Len(medications) }

\* The record of the operation that ran last: its arguments, the requests
\* it sent, whether all of them returned, this.medications, this.entries
\* and the namespace as it found them, and sync: the last loadData fetched
\* every user and no request has failed since.
Operation(kind, user, dateKey, medicationId, doseIndex, sent, ok, sync) ==
    [kind |-> kind, entries |-> trackerEntries, date |-> dateKey, store |-> kv,
     medications |-> medications, medicationId |-> medicationId,
     doseIndex |-> doseIndex, ok |-> ok, user |-> user, sent |-> sent, sync |-> sync]

\* loadData: one GET /api/data per user; a failed fetch gives that user an
\* empty list and no entries.  The list of USERS[0] becomes this.medications.
\* It runs from init(), so this.currentUser is what the constructor set.
LoadData ==
    \E failed \in SUBSET SessionUsers :
      LET allData == [user \in SessionUsers |->
                        IF user \in failed
                        THEN [entries |-> NoEntries, medications |-> <<>>]
                        ELSE GetDataHandler(kv, getUserIdForUser(user)).response.body]
      IN /\ last.kind = "none" \/ nops < MaxSessionOps
         /\ nops' = IF last.kind = "none" THEN nops ELSE nops + 1
         /\ medications' = allData[USERS[1]].medications
         /\ trackerEntries' = [user \in SessionUsers |-> allData[user].entries]
         /\ trackerUser' = currentUser
         /\ last' = Operation("load", "", "", "", 0, Len(USERS), failed = {}, failed = {})
         /\ UNCHANGED <<kv, ops, seqVars, concVars, pairVars, viewVars, view>>

\* The change handler of currentUserSelect.
SelectCurrentUser ==
    \E user \in SessionUsers :
        /\ last.kind # "none"
        /\ user # trackerUser
        /\ trackerUser' = user
        /\ UNCHANGED <<kv, clientVars, seqVars, concVars, pairVars, viewVars,
                       trackerEntries, last, view>>

\* addMedication: push, then saveMedications for this.api and for each of
\* USERS; the catch block pops.
SessionAddMedication ==
    \E name \in MedNames, failAt \in 0..Len(SaveTargets), fate \in {"lost", "dropped"} :
      LET newMed == Medication(DateNowToString(nops + 1), name)
          pushed == Append(medications, newMed)
          served == ServedCount(SaveTargets, failAt, fate)
      IN /\ last.kind # "none" /\ nops < MaxSessionOps
         /\ failAt = 0 => fate = "lost"
         /\ nops' = nops + 1
         /\ kv' = SaveEach(kv, SaveTargets, served, pushed)
         /\ medications' = IF failAt = 0 THEN pushed ELSE Pop(pushed)
         /\ last' = Operation("add", "", "", newMed.id, 0,
                              IF failAt = 0 THEN Len(SaveTargets) ELSE failAt,
                              failAt = 0, last.sync /\ failAt = 0)
         /\ UNCHANGED <<ops, seqVars, concVars, pairVars, viewVars,
                        trackerEntries, trackerUser, view>>

\* deleteMedication of a listed medication: filter, then one DELETE per
\* user; the catch block only alerts.
SessionDeleteMedication ==
    \E id \in ListedIds, failAt \in 0..Len(DeleteTargets), fate \in {"lost", "dropped"} :
      LET served == ServedCount(DeleteTargets, failAt, fate)
      IN /\ last.kind # "none" /\ nops < MaxSessionOps
         /\ failAt = 0 => fate = "lost"
         /\ nops' = nops + 1
         /\ kv' = DeleteEach(kv, DeleteTargets, served, id)
         /\ medications' = FilterMedications(medications, id)
         /\ last' = Operation("delete", "", "", id, 0,
                              IF failAt = 0 THEN Len(DeleteTargets) ELSE failAt,
                              failAt = 0, last.sync /\ failAt = 0)
         /\ UNCHANGED <<ops, seqVars, concVars, pairVars, viewVars,
                        trackerEntries, trackerUser, view>>

\* trackMedicationDose for a listed medication: the local entries are
\* changed, POST /api/entry is awaited, and the catch block nulls the slot.
SessionTrackMedicationDose ==
    \E d \in SessionDates, m \in ListedIds, i \in Idx, taken \in BOOLEAN,
       fate \in Fates, now \in Clock :
      LET user == trackerUser
          timestamp == toISOString(nops + 1)
          tracked == TrackDoseLocally(EntriesOf(trackerEntries, user), d, m, i,
                                      Dose(taken, timestamp))
          request == Fetch(kv, PostEntryHandler(kv, getUserIdForUser(user),
                               EntryBody(Some(d), Some(m), Some(taken), Some(timestamp),
                                         Some(i)), now), fate)
      IN /\ last.kind # "none" /\ nops < MaxSessionOps
         /\ nops' = nops + 1
         /\ kv' = request.store
         /\ trackerEntries' =
               WithEntriesOf(trackerEntries, user,
                   IF request.ok THEN tracked ELSE RevertTrackedDose(tracked, d, m, i))
         /\ last' = Operation("track", user, d, m, i, 1, request.ok,
                              last.sync /\ request.ok)
         /\ UNCHANGED <<medications, ops, seqVars, concVars, pairVars, viewVars,
                        trackerUser, view>>

\* updateTimestamp: without a dose in the slot it alerts and returns; else
\* the timestamp is set locally and PUT /api/entry is awaited.  The catch
\* block only alerts.
UpdateTimestamp ==
    \E d \in SessionDates, m \in ListedIds, i \in Idx, timestamp \in Timestamps,
       fate \in Fates :
      LET user == trackerUser
          mine == EntriesOf(trackerEntries, user)
          found == HasLocalDose(mine, d, m, i)
          request == Fetch(kv, PutEntryHandler(kv, getUserIdForUser(user),
                               [timestamp |-> Some(timestamp), date |-> Some(d),
                                medicationId |-> Some(m), doseIndex |-> Some(i)]), fate)
      IN /\ last.kind # "none" /\ nops < MaxSessionOps
         /\ ~found => fate = "served"
         /\ nops' = nops + 1
         /\ kv' = IF found THEN request.store ELSE kv
         /\ trackerEntries' =
               IF found
               THEN WithEntriesOf(trackerEntries, user,
                        [mine EXCEPT ![d] = PutEntryUpdate(mine[d], m, i, timestamp)])
               ELSE trackerEntries
         /\ last' = IF found
                    THEN Operation("update", user, d, m, i, 1, request.ok,
                                   last.sync /\ request.ok)
                    ELSE Operation("update", user, d, m, i, 0, FALSE, last.sync)
         /\ UNCHANGED <<medications, ops, seqVars, concVars, pairVars, viewVars,
                        trackerUser, view>>

\* clearMedicationStatus, confirmed: without a dose in the slot it returns;
\* else the slot is nulled locally, emptied sub-entry and day entry are
\* deleted, and DELETE /api/entry is awaited.  The catch block only alerts.
SessionClearMedicationStatus ==
    \E d \in SessionDates, m \in ListedIds, i \in Idx, fate \in Fates :
      LET user == trackerUser
          mine == EntriesOf(trackerEntries, user)
          request == Fetch(kv, DeleteEntryHandler(kv, getUserIdForUser(user),
                               [date |-> Some(d), medicationId |-> Some(m),
                                doseIndex |-> Some(i)]), fate)
      IN /\ last.kind # "none" /\ nops < MaxSessionOps
         /\ HasLocalDose(mine, d, m, i)
         /\ nops' = nops + 1
         /\ kv' = request.store
         /\ trackerEntries' =
               WithEntriesOf(trackerEntries, user, ClearDoseLocally(mine, d, m, i))
         /\ last' = Operation("clear", user, d, m, i, 1, request.ok,
                              last.sync /\ request.ok)
         /\ UNCHANGED <<medications, ops, seqVars, concVars, pairVars, viewVars,
                        trackerUser, view>>

NextSession ==
    \/ LoadData
    \/ SelectCurrentUser
    \/ SessionAddMedication
    \/ SessionDeleteMedication
    \/ SessionTrackMedicationDose
    \/ UpdateTimestamp
    \/ SessionClearMedicationStatus

SpecSession == Init /\ [][NextSession]_vars

\* ------------------------------------------------------------------ view
\* getMedicationStatus and renderStats: what the calendar and the data tab
\* compute from this.selectedUsers, this.medications and this.entries.

\* Each behaviour of SpecView is one call, on arguments drawn from the sets
\* below.
\* The date keys asked about, and new Date(dateKey + 'T00:00:00'): the
\* local date with that year, month and day.  2024-03-03 is a Sunday.
ViewDateKeys == {"2024-03-03", "2024-03-04", "2024-03-06"}
NewDate(dateKey) ==
    CASE dateKey = "2024-03-03" -> [year |-> 2024, month |-> 3, day |-> 3]
      [] dateKey = "2024-03-04" -> [year |-> 2024, month |-> 3, day |-> 4]
      [] dateKey = "2024-03-06" -> [year |-> 2024, month |-> 3, day |-> 6]

\* this.selectedUsers: the values of the checked user boxes in document
\* order.
SelectedUsersLists ==
    {<<>>, <<"Peter">>, <<"Peter", "Seonho">>, <<"Seonho", "Angelina">>}

\* Medications as addMedication builds them and getMedicationStatus reads
\* them: timesPerDay is parseInt(...) || 1, so never 0; it is absent in a
\* list stored before the field existed.
ViewMedication(id, timesPerDay, frequency) ==
    [id |-> id, frequency |-> frequency,
     daysOfWeek |-> IF frequency = Some("weekly") THEN Some(<<"1", "3">>) ELSE None,
     timesPerDay |-> timesPerDay]
ViewTimesPerDay == {None, Some(1), Some(2)}
ViewMedicationLists ==
    {<<>>}
    \cup { <<ViewMedication("m1", t, f)>> : t \in ViewTimesPerDay, f \in Frequencies }
    \cup { <<ViewMedication("m1", t1, f1), ViewMedication("m2", t2, f2)>> :
             t1 \in ViewTimesPerDay, f1 \in Frequencies,
             t2 \in ViewTimesPerDay, f2 \in Frequencies }

\* this.entries as the operations leave it: for each date key asked about,
\* Peter's day entry may hold m1 and m2, Seonho's m1; Angelina has no
\* entries, and a user may be missing altogether.
ViewDoseLists ==
    { <<Dose(TRUE, "t1")>>, <<Dose(FALSE, "t1")>>, <<Null>>,
      <<Null, Dose(TRUE, "t2")>>, <<Dose(FALSE, "t1"), Dose(TRUE, "t2")>> }
ViewDayEntries ==
    { [m \in ids |-> [doses |-> IF m = "m1" THEN a ELSE b]] :
        ids \in SUBSET {"m1", "m2"}, a \in ViewDoseLists,
        b \in {<<Dose(TRUE, "t1")>>, <<Null, Dose(FALSE, "t2")>>} }
ViewEntries ==
    { [user \in users |->
         IF user = "Peter" THEN IF mine = <<>> THEN NoEntries
                                 ELSE [d \in {"2024-03-04"} |-> mine]
         ELSE IF user = "Seonho" THEN [d \in {"2024-03-04", "2024-03-06"} |-> theirs]
         ELSE NoEntries] :
        users \in {{"Peter"}, {"Peter", "Seonho", "Angelina"}},
        mine \in ViewDayEntries,
        theirs \in { [m \in {"m1"} |-> [doses |-> a]] : a \in {<<Dose(FALSE, "t2")>>, <<Null, Dose(TRUE, "t1")>>} } }

\* Mutant of TimesPerDay: one slot per medication, whatever timesPerDay.
TimesPerDayAlwaysOne(med) == 1

\* med.timesPerDay || 1
TimesPerDay(med) ==
    IF med.timesPerDay = None \/ med.timesPerDay = Some(0) THEN 1 ELSE med.timesPerDay[1]

\* The codes the inner for loop pushes for one medication and one day
\* entry.
MedStatuses(med, dayEntries) ==
    LET doses == IF med.id \in DOMAIN dayEntries THEN dayEntries[med.id].doses ELSE <<>>
    IN [i \in 1..TimesPerDay(med) |->
          IF NoDoseAt(doses, i - 1) THEN "pending"
          ELSE IF doses[i].taken THEN "taken" ELSE "missed"]

\* this.medications.forEach over the first n medications, for one day
\* entry: a medication that is not tracked on the date pushes nothing.
RECURSIVE DayStatuses(_, _, _, _)
DayStatuses(list, n, dayEntries, date) ==
    IF n = 0 THEN <<>>
    ELSE DayStatuses(list, n - 1, dayEntries, date)
         \o ( IF shouldTrackMedication(list[n], date)
              THEN MedStatuses(list[n], dayEntries) ELSE <<>> )

\* this.selectedUsers.forEach over the first n users.
RECURSIVE UserStatuses(_, _, _, _, _)
UserStatuses(users, n, list, localEntries, dateKey) ==
    IF n = 0 THEN <<>>
    ELSE LET userEntries == EntriesOf(localEntries, users[n])
             dayEntries == IF dateKey \in DOMAIN userEntries
                           THEN userEntries[dateKey] ELSE <<>>
         IN UserStatuses(users, n - 1, list, localEntries, dateKey)
            \o DayStatuses(list, Len(list), dayEntries, NewDate(dateKey))

\* getMedicationStatus(dateKey)
getMedicationStatus(users, list, localEntries, dateKey) ==
    UserStatuses(users, Len(users), list, localEntries, dateKey)

\* Sum of f over the set S.
RECURSIVE SumOver(_, _)
SumOver(S, f) ==
    IF S = {} THEN 0
    ELSE LET x == CHOOSE y \in S : TRUE IN f[x] + SumOver(S \ {x}, f)

\* What the forEach over medEntry.doses adds to the counters, for
\* medEntry = dayEntries[medId] as renderStats names them.  renderStats
\* walks this.entries as if it were keyed by date: its dateKey is a user,
\* its dayEntries the entries of that user, its medId a date key and its
\* medEntry a day entry, an object keyed by medication id.  medEntry.doses
\* is undefined in a day entry (no medication id is "doses": ids are
\* Date.now().toString()), so the if is not taken.
StatsOfMedEntry(medEntry) ==
    IF "doses" \in DOMAIN medEntry
    THEN LET doses == medEntry["doses"].doses
             recorded == { j \in 1..Len(doses) : doses[j] # Null }
         IN [taken |-> Cardinality({ j \in recorded : doses[j].taken }),
             entries |-> Cardinality(recorded)]
    ELSE [taken |-> 0, entries |-> 0]

\* Math.round((totalTaken / totalEntries) * 100)
RoundPercent(part, whole) == (200 * part + whole) \div (2 * whole)

\* renderStats: the four values of the stat cards.
renderStats(localEntries) ==
    LET pairs == { <<dateKey, medId>> : dateKey \in DOMAIN localEntries,
                                        medId \in UNION { DOMAIN localEntries[k] :
                                                           k \in DOMAIN localEntries } }
        walked == { pr \in pairs : pr[2] \in DOMAIN localEntries[pr[1]] }
        each == [pr \in walked |-> StatsOfMedEntry(localEntries[pr[1]][pr[2]])]
        totalEntries == SumOver(walked, [pr \in walked |-> each[pr].entries])
        totalTaken == SumOver(walked, [pr \in walked |-> each[pr].taken])
        totalMissed == totalEntries - totalTaken
    IN [totalEntries |-> totalEntries, totalTaken |-> totalTaken,
        totalMissed |-> totalMissed,
        adherenceRate |-> IF totalEntries > 0 THEN RoundPercent(totalTaken, totalEntries)
                          ELSE 0]

\* renderCalendar asks getMedicationStatus for a day.
GetMedicationStatus ==
    /\ ~view.called
    /\ \E users \in SelectedUsersLists, list \in ViewMedicationLists,
          localEntries \in ViewEntries, dateKey \in ViewDateKeys :
        /\ view' = [kind |-> "status", entries |-> localEntries, medications |-> list,
                    called |-> TRUE,
                    result |-> getMedicationStatus(users, list, localEntries, dateKey),
                    dateKey |-> dateKey, selectedUsers |-> users]
        /\ UNCHANGED <<kv, seqVars, concVars, clientVars, pairVars, viewVars,
                       trackerEntries, trackerUser, last>>

\* The data tab is opened: renderDataView calls renderStats.
RenderStats ==
    /\ ~view.called
    /\ \E localEntries \in ViewEntries :
        /\ view' = [kind |-> "stats", entries |-> localEntries, called |-> TRUE,
                    result |-> renderStats(localEntries)]
        /\ UNCHANGED <<kv, seqVars, concVars, clientVars, pairVars, viewVars,
                       trackerEntries, trackerUser, last>>

NextView ==
    \/ GetMedicationStatus
    \/ RenderStats

SpecView == Init /\ [][NextView]_vars

\* ================================================================ claims
\* What the writing request served last names, and what was stored there.
ReqKey == entryKey(req.userId, req.body.date[1])
ReqMed == req.body.medicationId[1]
ReqIdx == IF req.body.doseIndex = None THEN 0 ELSE req.body.doseIndex[1]

\* A GET /api/data by the user of that request has been served after it.
GotByReqUser == got.userId = req.userId /\ got.response.status = 200

IsEntryKey(k) == Len(k) = 4 /\ k[1] = "user" /\ k[3] = "entries"

\* The doses list stored in namespace store under (key, medicationId), <<>>
\* when the day key or the medication sub-entry is absent.
StoredDoses(store, key, medicationId) ==
    IF key \in DOMAIN store /\ medicationId \in DOMAIN store[key]
    THEN store[key][medicationId].doses ELSE <<>>

\* Slot doseIdx of (key, medicationId) holds a dose in store.
HoldsDose(store, key, medicationId, doseIdx) ==
    /\ doseIdx < Len(StoredDoses(store, key, medicationId))
    /\ StoredDoses(store, key, medicationId)[doseIdx + 1] # Null

\* The day entry under key holds exactly one non-null dose, at
\* (medicationId, doseIdx).
OnlyDoseAt(store, key, medicationId, doseIdx) ==
    /\ HoldsDose(store, key, medicationId, doseIdx)
    /\ \A m \in DOMAIN store[key] :
         \A j \in 1..Len(store[key][m].doses) :
            store[key][m].doses[j] # Null => (m = medicationId /\ j = doseIdx + 1)

StoredMedications(store, userId) ==
    IF medicationsKey(userId) \in DOMAIN store THEN store[medicationsKey(userId)] ELSE <<>>

MaxOf(a, b) == IF a >= b THEN a ELSE b

\* C1: after a successful POST /api/entry {date d, medicationId m, taken,
\* timestamp ts, doseIndex i} by user u, a GET /api/data by u served with
\* no write in between returns entries[d][m].doses[i] = {taken, timestamp:
\* ts}; taken false is returned as false.
C1_PostEntryThenGetData ==
    ( /\ req.op = "POST /api/entry" /\ resp.status = 200
      /\ ~Falsy(req.body.timestamp)
      /\ got.userId = req.userId )
    => LET d == req.body.date[1]
           entries == got.response.body.entries
       IN /\ got.response.status = 200
          /\ d \in DOMAIN entries
          /\ ReqMed \in DOMAIN entries[d]
          /\ ReqIdx < Len(entries[d][ReqMed].doses)
          /\ entries[d][ReqMed].doses[ReqIdx + 1]
               = [taken |-> req.body.taken[1], timestamp |-> req.body.timestamp[1]]

\* C1 witness: a dose recorded as not taken was posted at index MaxIdx and
\* the same user's GET /api/data has been served after it.
C1_Witness ==
    /\ req.op = "POST /api/entry" /\ resp.status = 200
    /\ req.body.taken = Some(FALSE) /\ ReqIdx = MaxIdx
    /\ GotByReqUser

\* C2: when the day entry of (u, d) holds exactly one non-null dose, at
\* (m, i), DELETE /api/entry {d, m, i} by u returns success and deletes the
\* key user:u:entries:d, and the next GET /api/data by u has no entry for d.
C2_DeleteLastDoseDropsDay ==
    ( /\ req.op = "DELETE /api/entry"
      /\ OnlyDoseAt(prev, ReqKey, ReqMed, ReqIdx) )
    => /\ resp.status = 200 /\ resp.body = [success |-> TRUE]
       /\ ReqKey \notin DOMAIN kv
       /\ GotByReqUser => req.body.date[1] \notin DOMAIN got.response.body.entries

\* C2 witness: a DELETE /api/entry was served on a day whose only dose sat
\* at index 1 behind a null slot, the user has doses on another date, and
\* the user's GET /api/data has been served after the DELETE.
C2_Witness ==
    /\ req.op = "DELETE /api/entry" /\ ReqIdx = 1
    /\ OnlyDoseAt(prev, ReqKey, ReqMed, ReqIdx)
    /\ ReqKey \notin DOMAIN kv
    /\ GotByReqUser
    /\ DOMAIN got.response.body.entries # {}

\* C3: PUT /api/entry on (u, d, m, i) where the day key is absent, or the
\* medication sub-entry is absent, or slot i is null or past the end,
\* returns 404 and leaves the whole namespace unchanged.
C3_PutMissingIs404 ==
    ( /\ req.op = "PUT /api/entry"
      /\ ~HoldsDose(prev, ReqKey, ReqMed, ReqIdx) )
    => /\ resp.status = 404
       /\ kv = prev

\* C3 witness: a PUT /api/entry was served on a slot that exists and holds
\* null, in a medication sub-entry that exists.
C3_Witness ==
    /\ req.op = "PUT /api/entry"
    /\ ReqIdx < Len(StoredDoses(prev, ReqKey, ReqMed))
    /\ StoredDoses(prev, ReqKey, ReqMed)[ReqIdx + 1] = Null
    /\ resp.status = 404

\* C4: POST /api/medications {medications: A} by u replaces u's list
\* wholesale, whatever was stored before and for every array A, the empty
\* one included; the next GET /api/data by u returns medications = A.
C4_PostMedicationsThenGetData ==
    ( /\ req.op = "POST /api/medications"
      /\ req.body.medications.type = "array" )
    => /\ resp.status = 200
       /\ DOMAIN kv = DOMAIN prev \cup {medicationsKey(req.userId)}
       /\ \A k \in DOMAIN prev : k # medicationsKey(req.userId) => kv[k] = prev[k]
       /\ kv[medicationsKey(req.userId)] = req.body.medications.value
       /\ got.userId = req.userId
            => got.response.body.medications = req.body.medications.value

\* C4 witness: a stored list of MaxMeds medications was replaced by the
\* empty array, and the user's GET /api/data has been served after it.
C4_Witness ==
    /\ req.op = "POST /api/medications"
    /\ req.body.medications.value = <<>>
    /\ Len(StoredMedications(prev, req.userId)) = MaxMeds
    /\ GotByReqUser

\* C5: when a save request of addMedication fails, the local medication
\* list after the failure is identical to the list just before the add, in
\* every execution, also when another add or delete was started while the
\* request was pending.
C5_FailedAddRestoresList ==
    \A o \in OpSlots :
        ( ops[o].pc = "failed" /\ ops[o].kind = "add" )
        => ops[o].after = ops[o].before

\* C6: every existing key user:u:entries:d holds at least one medication
\* sub-entry, and every medication sub-entry in it holds at least one
\* non-null dose, in every state that interleaved entry requests reach.
C6_NoEmptyDayEntry ==
    \A k \in DOMAIN kv : IsEntryKey(k) =>
        /\ DOMAIN kv[k] # {}
        /\ \A m \in DOMAIN kv[k] :
              \E j \in 1..Len(kv[k][m].doses) : kv[k][m].doses[j] # Null

\* C6 witness: a DELETE that removed the day key and a POST that read the
\* day entry before that removal have both responded, and the POST's
\* write-back has put the day entry back with both medications in it.
C6_Witness ==
    \E p \in Procs, q \in Procs :
        /\ inflight[p].pc = "done" /\ inflight[q].pc = "done"
        /\ inflight[p].op = "DELETE /api/entry" /\ inflight[p].write.kind = "delete"
        /\ inflight[q].op = "POST /api/entry"
        /\ inflight[q].write.key = inflight[p].write.key
        /\ inflight[p].write.key \in DOMAIN kv
        /\ DOMAIN kv[inflight[p].write.key] = MedIds

\* C7: every stored doses list is gap-free, each slot null or a dose
\* {taken, timestamp}; a successful POST /api/entry at index i on a list of
\* length n (0 when the sub-entry is new) yields a list of length
\* max(n, i+1) whose slots n..i-1 are null, whose slot i is the new dose and
\* whose other slots are unchanged; an omitted doseIndex means index 0.
C7_DosesGapFreeAndPadded ==
    /\ \A k \in DOMAIN kv : IsEntryKey(k) =>
         \A m \in DOMAIN kv[k] : \A j \in 1..Len(kv[k][m].doses) :
            kv[k][m].doses[j] = Null \/ kv[k][m].doses[j] \in Doses
    /\ ( req.op = "POST /api/entry" /\ resp.status = 200 )
       => LET old == StoredDoses(prev, ReqKey, ReqMed)
              new == StoredDoses(kv, ReqKey, ReqMed)
              n == Len(old)
          IN /\ Len(new) = MaxOf(n, ReqIdx + 1)
             /\ \A j \in (n + 1)..ReqIdx : new[j] = Null
             /\ new[ReqIdx + 1] \in Doses
             /\ new[ReqIdx + 1].taken = req.body.taken[1]
             /\ ~Falsy(req.body.timestamp)
                  => new[ReqIdx + 1].timestamp = req.body.timestamp[1]
             /\ \A j \in 1..n : j # ReqIdx + 1 => new[j] = old[j]

\* C7 witness: a POST /api/entry at index MaxIdx created a medication
\* sub-entry, so every slot before it was padded.
C7_Witness ==
    /\ req.op = "POST /api/entry" /\ resp.status = 200
    /\ ReqIdx = MaxIdx
    /\ ReqMed \notin DOMAIN (IF ReqKey \in DOMAIN prev THEN prev[ReqKey] ELSE <<>>)
    /\ Len(StoredDoses(kv, ReqKey, ReqMed)) = MaxIdx + 1
    /\ StoredDoses(kv, ReqKey, ReqMed)[1] = Null

\* C8: a successful PUT /api/entry {d, m, ts, i} by u changes only the
\* timestamp of the dose at (u, d, m, i), to ts: its taken flag, the other
\* slots of m, the other sub-entries of d, every other key (other dates,
\* the medications lists) are unchanged.
C8_PutChangesOnlyTimestamp ==
    ( req.op = "PUT /api/entry" /\ resp.status = 200 )
    => /\ DOMAIN kv = DOMAIN prev
       /\ \A k \in DOMAIN kv : k # ReqKey => kv[k] = prev[k]
       /\ DOMAIN kv[ReqKey] = DOMAIN prev[ReqKey]
       /\ \A m \in DOMAIN kv[ReqKey] : m # ReqMed => kv[ReqKey][m] = prev[ReqKey][m]
       /\ Len(kv[ReqKey][ReqMed].doses) = Len(prev[ReqKey][ReqMed].doses)
       /\ \A j \in 1..Len(kv[ReqKey][ReqMed].doses) :
            j # ReqIdx + 1 => kv[ReqKey][ReqMed].doses[j] = prev[ReqKey][ReqMed].doses[j]
       /\ kv[ReqKey][ReqMed].doses[ReqIdx + 1].taken
            = prev[ReqKey][ReqMed].doses[ReqIdx + 1].taken
       /\ kv[ReqKey][ReqMed].doses[ReqIdx + 1].timestamp = req.body.timestamp[1]

\* C8 witness: a PUT /api/entry gave a new timestamp to a dose recorded as
\* not taken, in a day entry that holds a second medication.
C8_Witness ==
    /\ req.op = "PUT /api/entry" /\ resp.status = 200
    /\ prev[ReqKey][ReqMed].doses[ReqIdx + 1].taken = FALSE
    /\ prev[ReqKey][ReqMed].doses[ReqIdx + 1].timestamp # req.body.timestamp[1]
    /\ DOMAIN prev[ReqKey] = MedIds

\* The list without the elements whose id is medicationId, by recursion
\* from the front.
RECURSIVE WithoutId(_, _)
WithoutId(list, medicationId) ==
    IF list = <<>> THEN <<>>
    ELSE IF Head(list).id = medicationId THEN WithoutId(Tail(list), medicationId)
    ELSE <<Head(list)>> \o WithoutId(Tail(list), medicationId)

\* C9: DELETE /api/medication/{id} by u removes from u's list exactly the
\* elements whose id is {id}, keeps the others in order and leaves every
\* entries key unchanged; when no medication has the id it returns success
\* and the next GET /api/data by u returns the medications as before.
C9_DeleteMedicationFiltersListOnly ==
    req.op = "DELETE /api/medication"
    => LET key == medicationsKey(req.userId)
           id == req.body.medicationId
           before == StoredMedications(prev, req.userId)
       IN /\ resp.status = 200
          /\ DOMAIN kv = DOMAIN prev \cup {key}
          /\ kv[key] = WithoutId(before, id)
          /\ \A k \in DOMAIN prev : k # key => kv[k] = prev[k]
          /\ ( (\A j \in 1..Len(before) : before[j].id # id) /\ GotByReqUser )
               => got.response.body.medications = before

\* C9 witness: a DELETE /api/medication removed one of two listed
\* medications while doses recorded under its id were stored.
C9_Witness ==
    /\ req.op = "DELETE /api/medication"
    /\ Len(StoredMedications(prev, req.userId)) = 2
    /\ Len(StoredMedications(kv, req.userId)) = 1
    /\ \E d \in Dates :
          HoldsDose(kv, entryKey(req.userId, d), req.body.medicationId, 0)

\* C10: DELETE /api/entry is idempotent: it returns success, the same
\* DELETE served twice in a row leaves the namespace as the first left it,
\* and a DELETE for an absent day key or an absent medication sub-entry
\* returns success with the namespace unchanged.
C10_DeleteEntryIdempotent ==
    req.op = "DELETE /api/entry"
    => /\ resp.status = 200 /\ resp.body = [success |-> TRUE]
       /\ again => kv = prev
       /\ ( ReqKey \notin DOMAIN prev \/ ReqMed \notin DOMAIN prev[ReqKey] ) => kv = prev

\* C10 witness: the same DELETE /api/entry was served twice in a row on a
\* medication sub-entry that still holds a dose.
C10_Witness ==
    /\ req.op = "DELETE /api/entry" /\ again
    /\ resp.status = 200
    /\ ReqKey \in DOMAIN kv /\ ReqMed \in DOMAIN kv[ReqKey]

\* Requests p and q of SpecConc are the only two started, both are POST
\* /api/entry by one user for one date, at different (medicationId,
\* doseIndex), and both have responded.
C11_TwoPostsDone(p, q) ==
    /\ p # q /\ nconc = 2
    /\ inflight[p].pc = "done" /\ inflight[q].pc = "done"
    /\ inflight[p].op = "POST /api/entry" /\ inflight[q].op = "POST /api/entry"
    /\ inflight[p].userId = inflight[q].userId
    /\ inflight[p].body.date = inflight[q].body.date
    /\ <<inflight[p].body.medicationId, OrZero(inflight[p].body.doseIndex)>>
         # <<inflight[q].body.medicationId, OrZero(inflight[q].body.doseIndex)>>

\* The dose request r posted is stored at its slot.
C11_Stored(r) ==
    HoldsDose(kv, entryKey(r.userId, r.body.date[1]), r.body.medicationId[1],
              OrZero(r.body.doseIndex))

\* C11: two POST /api/entry requests by one user for one date, at different
\* slots, both return success, and the day entry holds both doses exactly
\* when one of them read the day key after the other wrote it; when both
\* read before either wrote, only the dose of the later writer is stored.
C11_LostUpdateIffBothReadFirst ==
    \A p \in Procs, q \in Procs :
        C11_TwoPostsDone(p, q)
        => /\ inflight[p].response.status = 200
           /\ inflight[q].response.status = 200
           /\ C11_Stored(inflight[p]) \/ C11_Stored(inflight[q])
           /\ (C11_Stored(inflight[p]) /\ C11_Stored(inflight[q]))
                <=> (inflight[p].seen # <<>> \/ inflight[q].seen # <<>>)

\* C11 witness: both POSTs have returned success and the dose of one of
\* them is not stored.
C11_Witness ==
    \E p \in Procs, q \in Procs :
        /\ C11_TwoPostsDone(p, q)
        /\ inflight[p].response.status = 200 /\ inflight[q].response.status = 200
        /\ C11_Stored(inflight[q]) /\ ~C11_Stored(inflight[p])

\* The two requests served one after the other, first r1 then r2, from
\* namespace store: the namespace they leave and their responses.
C12_OneAfterTheOther(store, r1, r2) ==
    LET a == EntryHandler(store, r1)
        s1 == ApplyWrite(store, a.write)
        b == EntryHandler(s1, r2)
    IN [store |-> ApplyWrite(s1, b.write), first |-> a.response, second |-> b.response]

\* The pair in flight has responded and its requests name different
\* (user, date).
C12_PairDoneOnTwoKeys(p, q) ==
    /\ p # q /\ npair > 0
    /\ inflight[p].pc = "done" /\ inflight[q].pc = "done"
    /\ <<inflight[p].userId, inflight[p].body.date>>
         # <<inflight[q].userId, inflight[q].body.date>>

\* C12: two POST/PUT/DELETE /api/entry requests whose (user, date) differ
\* leave, in every interleaving of their gets and writes, the namespace and
\* the two responses that serving them one after the other leaves, in either
\* order.
C12_DifferentKeysIndependent ==
    \A p \in Procs, q \in Procs :
        C12_PairDoneOnTwoKeys(p, q)
        => LET pq == C12_OneAfterTheOther(base, inflight[p], inflight[q])
               qp == C12_OneAfterTheOther(base, inflight[q], inflight[p])
           IN /\ kv = pq.store /\ kv = qp.store
              /\ inflight[p].response = pq.first /\ inflight[p].response = qp.second
              /\ inflight[q].response = pq.second /\ inflight[q].response = qp.first

\* C12 witness: a DELETE that removed its day key and a PUT that changed a
\* timestamp on another date of the same user arrived together and have
\* both responded.
C12_Witness ==
    \E p \in Procs, q \in Procs :
        /\ C12_PairDoneOnTwoKeys(p, q)
        /\ inflight[p].userId = inflight[q].userId
        /\ inflight[p].op = "DELETE /api/entry" /\ inflight[p].write.kind = "delete"
        /\ inflight[q].op = "PUT /api/entry" /\ inflight[q].response.status = 200
        /\ kv # base

\* C13: no request sent with X-User-ID = u changes what GET /api/data
\* returns for another user id v: the response of GET /api/data for v is the
\* same on the namespace the request left as on the one it found.
C13_OtherPartitionUntouched ==
    req.op # "none"
    => \A v \in PartitionUsers \ {req.userId} :
          GetDataHandler(kv, v).response = GetDataHandler(prev, v).response

\* C14: a write request (POST /api/medications, POST /api/entry, PUT
\* /api/entry, DELETE /api/entry, DELETE /api/medication/{id}) that does not
\* carry the correct edit password is rejected and leaves the namespace
\* unchanged.
C14_WriteNeedsPassword ==
    ( req.op # "none" /\ req.password # Some(EDIT_PASSWORD) )
    => /\ resp.status # 200
       /\ kv = prev

\* C15: POST /api/medications whose medications field is not an array
\* (absent, null, an object, a string, a number) returns 400 with a body
\* {error: message} and leaves the stored list and every other key
\* unchanged.
C15_NonArrayMedicationsIs400 ==
    ( /\ req.op = "POST /api/medications"
      /\ req.body.medications.type \in NonArrayTypes )
    => /\ resp.status = 400
       /\ DOMAIN resp.body = {"error"}
       /\ kv = prev

\* C15 witness: a POST /api/medications with an object as medications was
\* served while a list of MaxMeds medications was stored.
C15_Witness ==
    /\ req.op = "POST /api/medications"
    /\ req.body.medications.type = "object"
    /\ Len(StoredMedications(prev, req.userId)) = MaxMeds
    /\ resp.status = 400

\* C16: POST /api/entry whose body lacks date, medicationId or taken
\* returns 400 with a body {error: message} and leaves the namespace
\* unchanged.
C16_IncompletePostEntryIs400 ==
    ( /\ req.op = "POST /api/entry"
      /\ ( req.body.date = None \/ req.body.medicationId = None
           \/ req.body.taken = None ) )
    => /\ resp.status = 400
       /\ DOMAIN resp.body = {"error"}
       /\ kv = prev

\* C16 witness: a POST /api/entry that lacks only taken was served while
\* a dose was stored at the slot it names.
C16_Witness ==
    /\ req.op = "POST /api/entry"
    /\ req.body.taken = None /\ req.body.date # None /\ req.body.medicationId # None
    /\ HoldsDose(prev, ReqKey, ReqMed, ReqIdx)
    /\ resp.status = 400

\* C17: GET /api/data answers 200 and leaves the namespace as it found it;
\* for a user with no medications key it returns medications = [], and for
\* a user with no entries keys it returns entries = {}.
C17_GetDataDefaultsAndNeverWrites ==
    got # NoGet
    => /\ got.response.status = 200
       /\ kv = got.before
       /\ medicationsKey(got.userId) \notin DOMAIN got.before
            => got.response.body.medications = <<>>
       /\ (\A d \in Dates : entryKey(got.userId, d) \notin DOMAIN got.before)
            => DOMAIN got.response.body.entries = {}

\* C17 witness: GET /api/data was served for a user with no key at all
\* while another user had a medications key and an entries key.
C17_Witness ==
    /\ got # NoGet
    /\ got.response.status = 200
    /\ \A k \in DOMAIN kv : k[2] # got.userId
    /\ \E k \in DOMAIN kv : Len(k) = 3
    /\ \E k \in DOMAIN kv : Len(k) = 4

\* The Mondays and Wednesdays of February and March 2024, read off the
\* calendar.
C18_MondaysAndWednesdays ==
    { [year |-> 2024, month |-> 2, day |-> d] : d \in {5, 12, 19, 26, 7, 14, 21, 28} }
    \cup { [year |-> 2024, month |-> 3, day |-> d] : d \in {4, 11, 18, 25, 6, 13, 20, 27} }

\* C18: shouldTrackMedication(med, date) is true for a daily medication and
\* for one without frequency; for every-other-day it is true iff the day of
\* the month is even; for weekly it is true iff the weekday index of the
\* date, as a string, is in med.daysOfWeek, so that with ["1","3"] it is
\* true exactly on Mondays and Wednesdays, and with daysOfWeek absent or
\* empty it is false.
C18_ShouldTrackFollowsFrequency ==
    schedule.called
    => LET med == schedule.med
           date == schedule.date
           weekly == med.frequency = Some("weekly")
       IN /\ med.frequency \in {None, Some("daily")} => schedule.result = TRUE
          /\ med.frequency = Some("every-other-day")
               => (schedule.result <=> date.day % 2 = 0)
          /\ weekly
               => (schedule.result <=>
                     /\ med.daysOfWeek # None
                     /\ \E j \in 1..Len(med.daysOfWeek[1]) :
                           med.daysOfWeek[1][j] = ToString(getDay(date)))
          /\ (weekly /\ med.daysOfWeek = Some(<<"1", "3">>))
               => (schedule.result <=> date \in C18_MondaysAndWednesdays)
          /\ (weekly /\ med.daysOfWeek \in {None, Some(<<>>)})
               => schedule.result = FALSE

\* C18 witness: a weekly medication with daysOfWeek ["1","3"] was asked
\* about Wednesday 2024-03-06 and is tracked.
C18_Witness ==
    /\ schedule.called
    /\ schedule.med = [frequency |-> Some("weekly"), daysOfWeek |-> Some(<<"1", "3">>)]
    /\ schedule.date = [year |-> 2024, month |-> 3, day |-> 6]
    /\ schedule.result = TRUE

\* C19: when the save request of trackMedicationDose fails, this.entries of
\* the user is, after the catch block, what it was before the tap.
C19_FailedTrackRestoresEntries ==
    \A o \in OpSlots :
        ( ops[o].pc = "failed" /\ ops[o].kind = "track" )
        => ops[o].after = ops[o].before

\* C20: when the delete request of clearMedicationStatus fails,
\* this.entries of the user is, after the catch block, what it was before
\* the clear.
C20_FailedClearRestoresEntries ==
    \A o \in OpSlots :
        ( ops[o].pc = "failed" /\ ops[o].kind = "clear" )
        => ops[o].after = ops[o].before

\* C21: when a DELETE request of deleteMedication fails, this.medications
\* is, after the catch block, the list as it was before the delete, the
\* removed medication back at its former position.
C21_FailedDeleteRestoresList ==
    \A o \in OpSlots :
        ( ops[o].pc = "failed" /\ ops[o].kind = "delete" )
        => ops[o].after = ops[o].before

\* C22: whenever no record-a-dose or clear-a-dose operation is pending,
\* whether the operations before succeeded or failed, every day entry in
\* this.entries of the user holds a medication sub-entry with at least one
\* non-null dose.
C22_LocalDayHoldsDose ==
    ( \A o \in OpSlots : ops[o].pc # "await" )
    => \A d \in DOMAIN thisEntries :
          \E m \in DOMAIN thisEntries[d] : hasAnyDoses(thisEntries[d][m].doses)

\* C23: whenever no addMedication or deleteMedication is pending, whether
\* the operations before succeeded or reported a failure, the medication
\* lists stored for the users of USERS are equal to one another.
C23_StoredListsEqual ==
    ( \A o \in OpSlots : ops[o].pc # "await" )
    => \A i, j \in 1..Len(USERS) :
          StoredMedications(kv, getUserIdForUser(USERS[i]))
            = StoredMedications(kv, getUserIdForUser(USERS[j]))

\* C24: after an addMedication whose requests all succeeded, the list
\* stored for each user of USERS is the list stored for that user before
\* the add, followed by the new medication; also when the loadData before
\* it failed to fetch some user.
C24_AddAppendsToStoredLists ==
    ( last.kind = "add" /\ last.ok )
    => \A j \in 1..Len(USERS) :
          LET userId == getUserIdForUser(USERS[j])
              stored == StoredMedications(kv, userId)
          IN /\ stored # <<>>
             /\ stored[Len(stored)].id = last.medicationId
             /\ Pop(stored) = StoredMedications(last.store, userId)

\* C25: while the last loadData fetched every user and every request sent
\* since has succeeded, the operations running one after the other,
\* this.entries of each user equals the entries GET /api/data returns for
\* that user, and this.medications equals the list stored for the first
\* user.
C25_LocalEqualsRemote ==
    ( last.kind # "none" /\ last.sync )
    => /\ \A user \in SessionUsers :
            trackerEntries[user]
              = GetDataHandler(kv, getUserIdForUser(user)).response.body.entries
       /\ medications = StoredMedications(kv, getUserIdForUser(USERS[1]))

\* C25 witness: in sync after a clear that followed an add, a record and
\* another record for a user other than the first, a dose still stored.
C25_Witness ==
    /\ last.kind = "clear" /\ last.sync /\ last.user = "Seonho"
    /\ nops = MaxSessionOps
    /\ trackerEntries["Seonho"] # NoEntries
    /\ medications # <<>>

\* A dose is recorded under medicationId in the local entries localEntries
\* (user |-> date |-> medication |-> doses).
RecordedUnder(localEntries, medicationId) ==
    \E user \in DOMAIN localEntries : \E d \in DOMAIN localEntries[user] :
        /\ medicationId \in DOMAIN localEntries[user][d]
        /\ hasAnyDoses(localEntries[user][d][medicationId].doses)

\* C27: after deleteMedication(id), whatever became of its requests,
\* this.entries is what it was before, the doses recorded under id
\* included, and this.medications is the former list without the elements
\* whose id is id, the others in their order.
C27_DeleteLeavesEntries ==
    last.kind = "delete"
    => /\ trackerEntries = last.entries
       /\ medications = WithoutId(last.medications, last.medicationId)

\* C27 witness: a medication with a recorded dose was deleted from a list
\* of two, the other one stays, and the dose is still in this.entries.
C27_Witness ==
    /\ last.kind = "delete"
    /\ Len(last.medications) = 2 /\ Len(medications) = 1
    /\ RecordedUnder(last.entries, last.medicationId)
    /\ RecordedUnder(trackerEntries, last.medicationId)

\* The doses list of (user, date, medication) in the local entries
\* localEntries, <<>> when the user, the day entry or the sub-entry is
\* absent.
LocalDoses(localEntries, user, dateKey, medicationId) ==
    IF /\ user \in DOMAIN localEntries
       /\ dateKey \in DOMAIN localEntries[user]
       /\ medicationId \in DOMAIN localEntries[user][dateKey]
    THEN localEntries[user][dateKey][medicationId].doses
    ELSE <<>>

\* The slot the last operation named, in the local entries localEntries:
\* <<the dose>> when it holds one, <<>> when it is absent or null.
LastSlot(localEntries) ==
    LET doses == LocalDoses(localEntries, last.user, last.date, last.medicationId)
    IN IF last.doseIndex < Len(doses) /\ doses[last.doseIndex + 1] # Null
       THEN <<doses[last.doseIndex + 1]>>
       ELSE <<>>

\* C28: updateTimestamp on a slot of the current user that holds no dose
\* sends no request and leaves this.entries and the namespace as they
\* were; on a slot that holds a dose it sends its request, and this.entries
\* differs from what it was in the timestamp of that dose at most: the
\* taken flag of the dose is the same.
C28_UpdateTimestampNeedsDose ==
    last.kind = "update"
    => IF LastSlot(last.entries) = <<>>
       THEN /\ last.sent = 0
            /\ trackerEntries = last.entries
            /\ kv = last.store
       ELSE /\ last.sent = 1
            /\ LastSlot(trackerEntries) # <<>>
            /\ LastSlot(trackerEntries)[1].taken = LastSlot(last.entries)[1].taken
            /\ [trackerEntries EXCEPT
                  ![last.user][last.date][last.medicationId].doses[last.doseIndex + 1].timestamp =
                      LastSlot(last.entries)[1].timestamp]
                 = last.entries

\* C28 witness: updateTimestamp was asked for slot 0 of a sub-entry whose
\* slot 0 is null (a dose is recorded in slot 1) and sent nothing.
C28_Witness ==
    /\ last.kind = "update" /\ last.sent = 0 /\ last.doseIndex = 0
    /\ Len(LocalDoses(trackerEntries, last.user, last.date, last.medicationId)) = 2
    /\ LastSlot(trackerEntries) = <<>>

\* A second case of C28: the timestamp of a dose marked missed was edited;
\* the dose is still marked missed and carries another timestamp.
C28_EditedMissedDose ==
    /\ last.kind = "update" /\ last.sent = 1
    /\ LastSlot(last.entries) # <<>> /\ LastSlot(trackerEntries) # <<>>
    /\ LastSlot(trackerEntries)[1].taken = FALSE
    /\ LastSlot(trackerEntries)[1].timestamp # LastSlot(last.entries)[1].timestamp

\* The medications of the last getMedicationStatus call that are scheduled
\* on its date, in list order, and the number of dose slots of the first k
\* of them.
C26_Scheduled ==
    SelectSeq(view.medications, LAMBDA med : shouldTrackMedication(med, NewDate(view.dateKey)))

C26_Slots(med) == IF med.timesPerDay = None THEN 1 ELSE med.timesPerDay[1]

RECURSIVE C26_SlotsBefore(_)
C26_SlotsBefore(k) ==
    IF k = 0 THEN 0 ELSE C26_SlotsBefore(k - 1) + C26_Slots(C26_Scheduled[k])

\* The code of dose slot i (from 0) of med for user on the date of the
\* call.
C26_Code(user, med, i) ==
    LET doses == LocalDoses(view.entries, user, view.dateKey, med.id)
    IN IF i < Len(doses) /\ doses[i + 1] # Null
       THEN IF doses[i + 1].taken THEN "taken" ELSE "missed"
       ELSE "pending"

\* C26: getMedicationStatus(dateKey) returns, for each selected user in
\* order and each medication scheduled on the date in list order, exactly
\* timesPerDay codes (1 when timesPerDay is absent), the code of slot i
\* being taken, missed or pending as the user's dose i is taken, not taken,
\* or null or absent; a medication that is not scheduled adds no code.
C26_StatusPerScheduledSlot ==
    ( view.called /\ view.kind = "status" )
    => LET perUser == C26_SlotsBefore(Len(C26_Scheduled))
       IN /\ Len(view.result) = Len(view.selectedUsers) * perUser
          /\ \A u \in 1..Len(view.selectedUsers), k \in 1..Len(C26_Scheduled) :
                \A i \in 0..(C26_Slots(C26_Scheduled[k]) - 1) :
                   view.result[(u - 1) * perUser + C26_SlotsBefore(k - 1) + i + 1]
                     = C26_Code(view.selectedUsers[u], C26_Scheduled[k], i)

\* C26 witness: two users asked about Monday 2024-03-04, the first
\* medication weekly on Mondays and Wednesdays twice a day, the second
\* daily; Peter missed and then took the first, the result holds all three
\* codes.
C26_Witness ==
    /\ view.called /\ view.kind = "status"
    /\ view.selectedUsers = <<"Peter", "Seonho">>
    /\ view.dateKey = "2024-03-04"
    /\ Len(view.medications) = 2
    /\ view.medications[1].frequency = Some("weekly")
    /\ view.medications[1].timesPerDay = Some(2)
    /\ view.medications[2].frequency = Some("daily")
    /\ view.medications[2].timesPerDay = None
    /\ Len(view.result) = 6
    /\ view.result[1] = "missed" /\ view.result[2] = "taken"
    /\ \E j \in 3..6 : view.result[j] = "pending"

\* The recorded doses of the local entries localEntries, as triples of
\* user, date and medication with the slot, and those marked taken.
C29_Recorded(localEntries) ==
    { q \in { <<user, d, m, j>> : user \in SessionUsers, d \in ViewDateKeys,
                                   m \in MedIds, j \in 1..(MaxIdx + 1) } :
        LET doses == LocalDoses(localEntries, q[1], q[2], q[3])
        IN q[4] <= Len(doses) /\ doses[q[4]] # Null }

C29_Taken(localEntries) ==
    { q \in C29_Recorded(localEntries) :
        LocalDoses(localEntries, q[1], q[2], q[3])[q[4]].taken }

\* C29: the values renderStats shows: Total Entries is the number of
\* non-null doses over all users, dates and medications of this.entries,
\* Taken and Missed count those marked taken and not taken, and the
\* adherence rate is 100 * Taken / Total Entries rounded, 0 without any
\* recorded dose.
C29_StatsCountEveryDose ==
    ( view.called /\ view.kind = "stats" )
    => LET total == Cardinality(C29_Recorded(view.entries))
           taken == Cardinality(C29_Taken(view.entries))
       IN /\ view.result.totalEntries = total
          /\ view.result.totalTaken = taken
          /\ view.result.totalMissed = total - taken
          /\ view.result.adherenceRate =
                IF total = 0 THEN 0 ELSE (200 * taken + total) \div (2 * total)

====
